---- MODULE Spec2Model ----
(***************************************************************************)
(* Signal interpretation layer of the Interactive Particles Music          *)
(* Visualizer: the spectral engine (AdvancedAudioManager) and the          *)
(* landmark gesture engine (GestureManager, in its extended and its basic  *)
(* variant).                                                               *)
(*                                                                         *)
(* Numbers.  The code computes in IEEE doubles; the model computes in      *)
(* integers of a fixed unit:                                               *)
(*   band energies      EnergyUnit  = 1.0                                  *)
(*   sensitivity        tenths      (10 = 1.0)                             *)
(*   smoothing factors  hundredths  (85 = 0.85)                            *)
(*   landmark coords    CoordUnit   = 1.0 of image space                   *)
(*   time               milliseconds, as Date.now() and setTimeout use     *)
(***************************************************************************)
EXTENDS Integers, Sequences, FiniteSets, TLC

VARIABLES
  now,               \* the clock read by Date.now() and by the timer queue
  \* ---- AdvancedAudioManager ----
  audio,             \* "none" | "created" (analyser exists) | "loaded" (audioContext set)
  isPlaying,
  frequencyArray,
  frequencyData,
  smoothedData,
  sensitivity,
  smoothingFactor,
  peakHistory,
  lastPeakTime,
  beatHistory,
  lastBeatTime,
  beatCallbacks,
  \* ---- what an observer of the audio engine has seen ----
  beatLog,           \* one entry per call of triggerBeatCallbacks
  lastTick,          \* what the last update() did
  ticks,             \* number of update() calls so far
  \* ---- AudioReactiveVisualizer ----
  visualizer,        \* whether its audio callbacks are set up or cleaned up
  \* ---- GestureManager ----
  variant,           \* "extended" (the manager with follow and paint) | "basic"
  isEnabled,
  cameraStarting,    \* toggleGestures() calls awaiting camera.start()
  gestureState,
  smoothedValues,
  callbacks,
  swipeTimers,       \* deadlines of the pending setTimeout(unlock) timers
  \* ---- what an observer of the gesture engine has seen ----
  handLog,           \* one record per hand of the last onHandResults
  swipeLog,          \* one entry per dispatched swipe
  frames,            \* number of onHandResults and onPoseResults calls so far
  poseLog,           \* what the last onPoseResults did
  registrations,     \* per callback slot, the registration calls so far
  toggleLog          \* the last onGestureStart/onGestureEnd calls, and the
                     \* camera.start() calls resolved since the last stop

audioVars == <<audio, isPlaying, frequencyArray, frequencyData, smoothedData,
               sensitivity, smoothingFactor, peakHistory, lastPeakTime,
               beatHistory, lastBeatTime, beatCallbacks, beatLog, lastTick, ticks,
               visualizer>>

gestureVars == <<variant, isEnabled, cameraStarting, gestureState, smoothedValues,
                 callbacks, swipeTimers, handLog, swipeLog, frames, poseLog,
                 registrations, toggleLog>>

vars == <<now, audioVars, gestureVars>>

----------------------------------------------------------------------------
\* Units and bounds

EnergyUnit == 255 * 4000
MagScale == 4 * 10           \* an average magnitude m is held as m * MagScale
CoordUnit == 100 * 100       \* 1.0 of image space, of pinch strength, of velocity

StartTime == 1000            \* Date.now() at construction
MaxTime == 600               \* the clock runs to StartTime + MaxTime
TimeStep == 100
MaxTicks == 4                \* update() calls per behaviour, beat timing
MaxBandTicks == 2            \* update() calls per behaviour, band analysis
MaxCallbackTicks == 3        \* update() calls per behaviour, beat dispatch
MaxCallbacks == 2            \* length of beatCallbacks
MaxPlaybackTicks == 3        \* update() calls per behaviour, playback
MaxSettingTicks == 1         \* update() calls per behaviour, settings
MaxHistoryTicks == 12         \* detectBeats() calls, rolling history
MaxFadeTicks == 2             \* analysed update() calls before the fade
MaxFadeLength == 100          \* update() calls of the fade
MaxVisualizerTicks == 3       \* update() calls, visualizer callbacks
MaxRegistryTicks == 2        \* update() calls per behaviour, beat registry
ScenarioTicks == 10          \* detectBeats() calls of the end-to-end scenario
NumBins == 4                 \* length of the analyser's frequency array
SampleRate == 44100          \* audioContext.sampleRate
MaxGestureTime == 1600       \* the gesture clock runs to StartTime + MaxGestureTime
MaxSwipeFrames == 4          \* onHandResults calls per behaviour, swipes
MaxHandFrames == 3           \* onHandResults calls per behaviour, poses
MaxPinchFrames == 2          \* onHandResults calls per behaviour, pinches
MaxFollowFrames == 3         \* onHandResults calls per behaviour, follow positions
MaxTwoHandFrames == 3        \* onHandResults calls per behaviour, two hands
MaxToggleFrames == 3   \* hand and pose results per run of SpecToggle
MaxSlotFrames == 3           \* onHandResults and onPoseResults calls, slots
MaxConstantTicks == 12       \* detectBeats() calls per run of SpecSteadyBass
ConstantPrefix == 3          \* of which the first ones take any value
MaxToggleStarts == 2         \* the same, in SpecToggle
MaxPendingStarts == 1        \* toggleGestures() calls awaiting camera.start()

Min(a, b) == IF a < b THEN a ELSE b
Max(a, b) == IF a > b THEN a ELSE b
Abs(a) == IF a < 0 THEN -a ELSE a

\* The element of a set of one element.  { e(v) : v \in {d} } names the value
\* of d once, as a local constant of the code does.
The(S) == CHOOSE v \in S : TRUE

RECURSIVE SumSeq(_)
SumSeq(s) == IF s = <<>> THEN 0 ELSE Head(s) + SumSeq(Tail(s))

----------------------------------------------------------------------------
\* AdvancedAudioManager: constants of the constructor

DefaultSensitivity == 10
DefaultSmoothing == 85
BassMin == 20
BassMax == 250
MidMin == 250
MidMax == 4000
TrebleMin == 4000
TrebleMax == 20000
PeakThreshold == (7 * EnergyUnit) \div 10
BeatThresholdTenths == 13
PeakFactorTenths == 15
BeatHistorySize == 10
PeakHistorySize == 5
MinBeatInterval == 200
MinPeakInterval == 100
DecayPercent == 95
VolumeThreshold == EnergyUnit \div 100
MinSensitivity == 1
MaxSensitivity == 30
MinSmoothing == 10
MaxSmoothing == 95

ZeroBands == [bass |-> 0, mid |-> 0, treble |-> 0, overall |-> 0]

\* Beat callbacks a consumer may register: two well-behaved functions, one
\* that throws, and a value that is not a function.
BeatCallbackValues == {"a", "b", "thrower", "notAFunction"}
IsFunction(cb) == cb # "notAFunction"
Throws(cb) == cb = "thrower"

\* Frequency arrays the analyser may deliver: bin 0 and the other bins each
\* silent, quiet or at full scale.
Magnitudes == {0, 51, 255}
FrequencyArrays ==
  { [i \in 1..NumBins |-> IF i = 1 THEN lo ELSE hi] : lo \in Magnitudes, hi \in Magnitudes }

----------------------------------------------------------------------------
\* AdvancedAudioManager: pure helpers

\* Math.floor((freqHz / nyquist) * binCount), nyquist = sampleRate / 2
BinOf(freqHz, sampleRate, binCount) == (2 * freqHz * binCount) \div sampleRate

\* calculateRangeAverage: bins startBin..endBin (0-based) that exist
calculateRangeAverage(arr, startBin, endBin) ==
  LET bins == { i \in startBin..endBin : i < Len(arr) }
      RECURSIVE Sum(_)
      Sum(S) == IF S = {} THEN 0
                ELSE LET i == CHOOSE j \in S : TRUE IN arr[i + 1] + Sum(S \ {i})
      count == Cardinality(bins)
  IN  IF count > 0 THEN (Sum(bins) * MagScale) \div count ELSE 0

\* normalizeValue: Math.max(0, Math.min(1, value / 255))
normalizeValue(value) ==
  Max(0, Min(EnergyUnit, (value * (EnergyUnit \div 255)) \div MagScale))

\* Variant of smoothValue: the two weights are exchanged.
smoothValueSwapped(current, target, factor) ==
  (current * (100 - factor) + target * factor) \div 100

\* smoothValue: current * smoothingFactor + target * (1 - smoothingFactor)
smoothValue(current, target, factor) ==
  (current * factor + target * (100 - factor)) \div 100

\* The raw band value: normalizeValue(avg) * this.sensitivity
RawBand(avg, sens) == (normalizeValue(avg) * sens) \div 10

\* history.push(v); if (history.length > cap) history.shift()
PushBounded(history, v, cap) ==
  LET h == Append(history, v) IN IF Len(h) > cap THEN Tail(h) ELSE h

\* Variant of ExceedsMean: reaching the threshold is enough.
ExceedsMeanOrReaches(energy, history, factorTenths) ==
  energy * Len(history) * 10 >= SumSeq(history) * factorTenths

\* Variant of ExceedsMean: the energy is compared with the bare mean.
ExceedsMeanNoThreshold(energy, history, factorTenths) ==
  energy * Len(history) >= SumSeq(history)

\* bassEnergy > avgEnergy * beatThreshold, avgEnergy = sum / length
ExceedsMean(energy, history, factorTenths) ==
  energy * Len(history) * 10 > SumSeq(history) * factorTenths

\* Variant of BeatIntervalElapsed: any later tick may fire.
BeatIntervalAnyLater(currentTime, last) == currentTime - last > 0

\* The interval test of detectBeats: currentTime - this.lastBeatTime > 200
BeatIntervalElapsed(currentTime, last) == currentTime - last > MinBeatInterval

\* triggerBeatCallbacks: forEach over the list, skipping non-functions; an
\* exception thrown by a callback ends the loop.  Result: the callbacks
\* invoked, in order, and whether one threw.
RECURSIVE InvokeAll(_)
InvokeAll(cbs) ==
  IF cbs = <<>> THEN [invoked |-> <<>>, threw |-> FALSE]
  ELSE IF ~IsFunction(Head(cbs)) THEN InvokeAll(Tail(cbs))
  ELSE IF Throws(Head(cbs)) THEN [invoked |-> <<Head(cbs)>>, threw |-> TRUE]
  ELSE LET rest == InvokeAll(Tail(cbs))
       IN  [invoked |-> <<Head(cbs)>> \o rest.invoked, threw |-> rest.threw]

triggerBeatCallbacks(cbs) == InvokeAll(cbs)

----------------------------------------------------------------------------
\* AdvancedAudioManager: operations

AudioInit ==
  /\ audio = "none"
  /\ isPlaying = FALSE
  /\ frequencyArray = <<>>
  /\ frequencyData = ZeroBands
  /\ smoothedData = ZeroBands
  /\ sensitivity = DefaultSensitivity
  /\ smoothingFactor = DefaultSmoothing
  /\ peakHistory = <<>>
  /\ lastPeakTime = 0
  /\ beatHistory = <<>>
  /\ lastBeatTime = 0
  /\ beatCallbacks = <<>>
  /\ beatLog = <<>>
  /\ lastTick = [kind |-> "none", beat |-> FALSE, threw |-> FALSE, peaksRan |-> FALSE]
  /\ ticks = 0
  /\ visualizer = [state |-> "none", at |-> 0]

\* Time passes.
AdvanceTime ==
  /\ now + TimeStep <= StartTime + MaxTime
  /\ now' = now + TimeStep
  /\ UNCHANGED <<audioVars, gestureVars>>

\* loadAudioBuffer(): the Audio object and the analyser are created at once
LoadAudioBuffer ==
  /\ audio = "none"
  /\ audio' = "created"
  /\ UNCHANGED <<now, isPlaying, frequencyArray, frequencyData, smoothedData,
                 sensitivity, smoothingFactor, peakHistory, lastPeakTime,
                 beatHistory, lastBeatTime, beatCallbacks, beatLog, lastTick, ticks,
                 gestureVars,
                 visualizer>>

\* the loader's callback: this.audioContext = this.audio.context
AudioLoaded ==
  /\ audio = "created"
  /\ audio' = "loaded"
  /\ UNCHANGED <<now, isPlaying, frequencyArray, frequencyData, smoothedData,
                 sensitivity, smoothingFactor, peakHistory, lastPeakTime,
                 beatHistory, lastBeatTime, beatCallbacks, beatLog, lastTick, ticks,
                 gestureVars,
                 visualizer>>

\* loadCustomAudioBuffer(audioBuffer, fileName): with an Audio object it
\* pauses, sets the buffer, sets audioContext if it is not set yet, and plays,
\* all in one call; without one it does nothing.
LoadCustomAudioBuffer ==
  /\ audio # "none"
  /\ audio' = "loaded"
  /\ isPlaying' = TRUE
  /\ UNCHANGED <<now, frequencyArray, frequencyData, smoothedData,
                 sensitivity, smoothingFactor, peakHistory, lastPeakTime,
                 beatHistory, lastBeatTime, beatCallbacks, beatLog, lastTick, ticks,
                 gestureVars,
                 visualizer>>

\* play(): this.audio.play(); this.isPlaying = true
Play ==
  /\ audio # "none"
  /\ ~isPlaying
  /\ isPlaying' = TRUE
  /\ UNCHANGED <<now, audio, frequencyArray, frequencyData, smoothedData,
                 sensitivity, smoothingFactor, peakHistory, lastPeakTime,
                 beatHistory, lastBeatTime, beatCallbacks, beatLog, lastTick, ticks,
                 gestureVars,
                 visualizer>>

\* pause(): this.audio.pause(); this.isPlaying = false
Pause ==
  /\ audio # "none"
  /\ isPlaying
  /\ isPlaying' = FALSE
  /\ UNCHANGED <<now, audio, frequencyArray, frequencyData, smoothedData,
                 sensitivity, smoothingFactor, peakHistory, lastPeakTime,
                 beatHistory, lastBeatTime, beatCallbacks, beatLog, lastTick, ticks,
                 gestureVars,
                 visualizer>>

\* Variant of OnBeat: the callback takes the place of those registered.
OnBeatReplacing(cb) ==
  /\ Len(beatCallbacks) < MaxCallbacks
  /\ beatCallbacks' = <<cb>>
  /\ UNCHANGED <<now, audio, isPlaying, frequencyArray, frequencyData, smoothedData,
                 sensitivity, smoothingFactor, peakHistory, lastPeakTime,
                 beatHistory, lastBeatTime, beatLog, lastTick, ticks, gestureVars,
                 visualizer>>

\* onBeat(callback): this.beatCallbacks.push(callback)
OnBeat(cb) ==
  /\ Len(beatCallbacks) < MaxCallbacks
  /\ beatCallbacks' = Append(beatCallbacks, cb)
  /\ UNCHANGED <<now, audio, isPlaying, frequencyArray, frequencyData, smoothedData,
                 sensitivity, smoothingFactor, peakHistory, lastPeakTime,
                 beatHistory, lastBeatTime, beatLog, lastTick, ticks, gestureVars,
                 visualizer>>

\* Variant of SetSensitivity: the value is stored as given.
SetSensitivityUnclamped(value) ==
  /\ sensitivity' = value
  /\ UNCHANGED <<now, audio, isPlaying, frequencyArray, frequencyData, smoothedData,
                 smoothingFactor, peakHistory, lastPeakTime,
                 beatHistory, lastBeatTime, beatCallbacks, beatLog, lastTick, ticks,
                 gestureVars,
                 visualizer>>

\* setSensitivity(value): Math.max(0.1, Math.min(3.0, value))
SetSensitivity(value) ==
  /\ sensitivity' = Max(MinSensitivity, Min(MaxSensitivity, value))
  /\ UNCHANGED <<now, audio, isPlaying, frequencyArray, frequencyData, smoothedData,
                 smoothingFactor, peakHistory, lastPeakTime,
                 beatHistory, lastBeatTime, beatCallbacks, beatLog, lastTick, ticks,
                 gestureVars,
                 visualizer>>

\* setSmoothing(value): Math.max(0.1, Math.min(0.95, value))
SetSmoothing(value) ==
  /\ smoothingFactor' = Max(MinSmoothing, Min(MaxSmoothing, value))
  /\ UNCHANGED <<now, audio, isPlaying, frequencyArray, frequencyData, smoothedData,
                 sensitivity, peakHistory, lastPeakTime,
                 beatHistory, lastBeatTime, beatCallbacks, beatLog, lastTick, ticks,
                 gestureVars,
                 visualizer>>

\* indexOf(callback): the first index holding the value, 0 for -1
RECURSIVE IndexOf(_, _, _)
IndexOf(s, v, i) ==
  IF i > Len(s) THEN 0 ELSE IF s[i] = v THEN i ELSE IndexOf(s, v, i + 1)

\* removeBeatCallback(callback): indexOf, then splice(index, 1) if found
RemoveBeatCallback(cb) ==
  /\ beatCallbacks' =
       The({ IF index = 0 THEN beatCallbacks
             ELSE SubSeq(beatCallbacks, 1, index - 1)
                    \o SubSeq(beatCallbacks, index + 1, Len(beatCallbacks)) :
             index \in {IndexOf(beatCallbacks, cb, 1)} })
  /\ UNCHANGED <<now, audio, isPlaying, frequencyArray, frequencyData, smoothedData,
                 sensitivity, smoothingFactor, peakHistory, lastPeakTime,
                 beatHistory, lastBeatTime, beatLog, lastTick, ticks, gestureVars,
                 visualizer>>

\* The functions of the AudioReactiveVisualizer: the arrow function that
\* setupAudioCallbacks hands to onBeat, and what this.onBeatDetected.bind(this)
\* returns in destroy(), a function of its own
VisualizerArrow == "visualizerArrow"
VisualizerBound == "visualizerBound"

\* destroy(): the argument of removeBeatCallback, this.onBeatDetected.bind(this)
DestroyCallback == VisualizerBound

\* AudioReactiveVisualizer.setupAudioCallbacks():
\* App.advancedAudioManager.onBeat((intensity) => { this.onBeatDetected(intensity) })
SetupAudioCallbacks ==
  /\ visualizer.state = "none"
  /\ Len(beatCallbacks) < MaxCallbacks
  /\ beatCallbacks' = Append(beatCallbacks, VisualizerArrow)
  /\ visualizer' = [state |-> "active", at |-> ticks]
  /\ UNCHANGED <<now, audio, isPlaying, frequencyArray, frequencyData, smoothedData,
                 sensitivity, smoothingFactor, peakHistory, lastPeakTime,
                 beatHistory, lastBeatTime, beatLog, lastTick, ticks, gestureVars>>

\* AudioReactiveVisualizer.destroy():
\* App.advancedAudioManager.removeBeatCallback(this.onBeatDetected.bind(this))
DestroyVisualizer ==
  /\ visualizer.state = "active"
  /\ beatCallbacks' =
       The({ IF index = 0 THEN beatCallbacks
             ELSE SubSeq(beatCallbacks, 1, index - 1)
                    \o SubSeq(beatCallbacks, index + 1, Len(beatCallbacks)) :
             index \in {IndexOf(beatCallbacks, DestroyCallback, 1)} })
  /\ visualizer' = [state |-> "destroyed", at |-> ticks]
  /\ UNCHANGED <<now, audio, isPlaying, frequencyArray, frequencyData, smoothedData,
                 sensitivity, smoothingFactor, peakHistory, lastPeakTime,
                 beatHistory, lastBeatTime, beatLog, lastTick, ticks, gestureVars>>

\* Variant of detectBeats: a tick held back by the interval is not recorded.
detectBeatsSkippingSuppressed(bassEnergy, history, currentTime, last) ==
  LET h == IF BeatIntervalElapsed(currentTime, last)
           THEN PushBounded(history, bassEnergy, BeatHistorySize)
           ELSE history
  IN  [history |-> h,
       fires |-> /\ h # <<>>
                 /\ ExceedsMean(bassEnergy, h, BeatThresholdTenths)
                 /\ BeatIntervalElapsed(currentTime, last)]

\* detectBeats(), as a function of the state it reads: the history after the
\* push and whether the beat fires.
detectBeats(bassEnergy, history, currentTime, last) ==
  LET h == PushBounded(history, bassEnergy, BeatHistorySize)
  IN  [history |-> h,
       fires |-> /\ ExceedsMean(bassEnergy, h, BeatThresholdTenths)
                 /\ BeatIntervalElapsed(currentTime, last)]

\* detectPeaks(), likewise
detectPeaks(overallEnergy, history, currentTime, last) ==
  LET h == PushBounded(history, overallEnergy, PeakHistorySize)
  IN  [history |-> h,
       fires |-> /\ overallEnergy > PeakThreshold
                 /\ ExceedsMean(overallEnergy, h, PeakFactorTenths)
                 /\ currentTime - last > MinPeakInterval]

\* The four raw band values analyzeFrequency computes from an array
RawBands(arr, sampleRate, sens) ==
  LET binCount == Len(arr)
      bin(f) == BinOf(f, sampleRate, binCount)
  IN  [bass    |-> RawBand(calculateRangeAverage(arr, bin(BassMin), bin(BassMax)), sens),
       mid     |-> RawBand(calculateRangeAverage(arr, bin(MidMin), bin(MidMax)), sens),
       treble  |-> RawBand(calculateRangeAverage(arr, bin(TrebleMin), bin(TrebleMax)), sens),
       overall |-> RawBand(calculateRangeAverage(arr, 0, binCount - 1), sens)]

SmoothBands(sm, raw, factor) ==
  [b \in DOMAIN sm |-> smoothValue(sm[b], raw[b], factor)]

\* getFrequencyData(): { raw: { ...frequencyData }, smoothed: { ...smoothedData } }
getFrequencyData(fd, sd) == [raw |-> fd, smoothed |-> sd]

\* Variant of BeatTimeData: the smoothed bands are assigned after detectBeats().
BeatTimeDataBeforeSmoothing(raw, smoothedBefore, smoothedAfter) ==
  getFrequencyData(raw, smoothedBefore)

\* What getFrequencyData() returns inside a beat callback: analyzeFrequency
\* has assigned the four raw and the four smoothed bands before detectBeats()
BeatTimeData(raw, smoothedBefore, smoothedAfter) ==
  getFrequencyData(raw, smoothedAfter)

\* getAudioFeatures().isActive: this.smoothedData.overall > this.volumeThreshold
IsActive(sm) == sm.overall > VolumeThreshold

\* Variant of DecayBands: the fade stops at twice the volume threshold.
DecayBandsToFloor(sm) ==
  [b \in DOMAIN sm |-> Max(Min(sm[b], 2 * VolumeThreshold),
                           (sm[b] * DecayPercent) \div 100)]

\* Variant of DecayBands: the smoothed values are held.
DecayBandsHeld(sm) == sm

\* update(), not playing: this.smoothedData.<band> *= 0.95, for the four bands
DecayBands(sm) == [b \in DOMAIN sm |-> (sm[b] * DecayPercent) \div 100]

\* Variant of AnalysisSkipped: only the empty array is looked at.
AnalysisSkippedOnEmptyOnly(a, arr) == Len(arr) = 0

\* analyzeFrequency(): if (!this.audioContext || !this.frequencyArray.length) return
AnalysisSkipped(a, arr) == a # "loaded" \/ Len(arr) = 0

\* update(): the decay path when not playing, else collectAudioData() and
\* analyzeFrequency() with detectBeats(), triggerBeatCallbacks() and
\* detectPeaks().  An exception thrown by a beat callback leaves update()
\* at that point: the later callbacks and detectPeaks() do not run.
Update(arr) ==
  /\ ticks' = ticks + 1
  /\ IF ~isPlaying
     THEN /\ smoothedData' = DecayBands(smoothedData)
          /\ lastTick' = [kind |-> "decay", beat |-> FALSE, threw |-> FALSE,
                          peaksRan |-> FALSE]
          /\ UNCHANGED <<frequencyArray, frequencyData, peakHistory, lastPeakTime,
                         beatHistory, lastBeatTime, beatLog>>
     ELSE /\ frequencyArray' = arr
          /\ IF AnalysisSkipped(audio, arr)
             THEN /\ lastTick' = [kind |-> "skipped", beat |-> FALSE,
                                  threw |-> FALSE, peaksRan |-> FALSE]
                  /\ UNCHANGED <<frequencyData, smoothedData, peakHistory,
                                 lastPeakTime, beatHistory, lastBeatTime, beatLog>>
             ELSE LET raw == RawBands(arr, SampleRate, sensitivity)
                      beat == detectBeats(raw.bass, beatHistory, now, lastBeatTime)
                      call == triggerBeatCallbacks(beatCallbacks)
                      threw == beat.fires /\ call.threw
                      smoothed == SmoothBands(smoothedData, raw, smoothingFactor)
                      peak == detectPeaks(raw.overall, peakHistory, now, lastPeakTime)
                  IN  /\ frequencyData' = raw
                      /\ smoothedData' = smoothed
                      /\ beatHistory' = beat.history
                      /\ lastBeatTime' = IF beat.fires THEN now ELSE lastBeatTime
                      /\ beatLog' = IF beat.fires
                                    THEN Append(beatLog, [time |-> now,
                                                          intensity |-> raw.bass,
                                                          tick |-> ticks + 1,
                                                          registered |-> beatCallbacks,
                                                          invoked |-> call.invoked,
                                                          read |-> BeatTimeData(raw,
                                                                     smoothedData, smoothed)])
                                    ELSE beatLog
                      /\ peakHistory' = IF threw THEN peakHistory ELSE peak.history
                      /\ lastPeakTime' = IF ~threw /\ peak.fires THEN now
                                         ELSE lastPeakTime
                      /\ lastTick' = [kind |-> "analysed", beat |-> beat.fires,
                                      threw |-> threw, peaksRan |-> ~threw]
  /\ UNCHANGED <<now, audio, isPlaying, sensitivity, smoothingFactor, beatCallbacks,
                 gestureVars,
                 visualizer>>

----------------------------------------------------------------------------
\* detectBeats() called on its own, as a test of the detector does: the bass
\* energy is put into frequencyData and the clock has moved on by dt.
FeedBass(bassEnergy, dt) ==
  LET t == now + dt
      beat == detectBeats(bassEnergy, beatHistory, t, lastBeatTime)
      call == triggerBeatCallbacks(beatCallbacks)
  IN  /\ now' = t
      /\ ticks' = ticks + 1
      /\ frequencyData' = [frequencyData EXCEPT !.bass = bassEnergy]
      /\ beatHistory' = beat.history
      /\ lastBeatTime' = IF beat.fires THEN t ELSE lastBeatTime
      /\ beatLog' = IF beat.fires
                    THEN Append(beatLog, [time |-> t, intensity |-> bassEnergy,
                                          tick |-> ticks + 1,
                                          registered |-> beatCallbacks,
                                          invoked |-> call.invoked,
                                          read |-> BeatTimeData(
                                                     [frequencyData EXCEPT
                                                        !.bass = bassEnergy],
                                                     smoothedData, smoothedData)])
                    ELSE beatLog
      /\ lastTick' = [kind |-> "detectBeats", beat |-> beat.fires,
                      threw |-> beat.fires /\ call.threw, peaksRan |-> FALSE]
      /\ UNCHANGED <<audio, isPlaying, frequencyArray, smoothedData, sensitivity,
                     smoothingFactor, peakHistory, lastPeakTime, beatCallbacks,
                     gestureVars,
                     visualizer>>

----------------------------------------------------------------------------
\* GestureManager: constants

GestureSmoothing == 80            \* this.smoothingFactor = 0.8
FollowSmoothing == 70             \* gestureThresholds.followSmoothingFactor = 0.7
SwipeVelocity == CoordUnit \div 20               \* 0.05
PinchThreshold == (3 * CoordUnit) \div 10        \* 0.3
ThumbExtendedMargin == (4 * CoordUnit) \div 100  \* 0.04
PalmThumbMargin == (5 * CoordUnit) \div 100      \* 0.05
FingerMargin == (2 * CoordUnit) \div 100         \* 0.02
PaintingThreshold == (8 * CoordUnit) \div 10     \* 0.8
ExtendedCooldown == 800
BasicCooldown == 500
OpenPalmFingers == 4

Cooldown(v) == IF v = "extended" THEN ExtendedCooldown ELSE BasicCooldown

Null == "null"
Point(px, py) == [x |-> px, y |-> py]

\* lastHandPosition is <<>> for null, else the one-element sequence of the point
DefaultGestureState ==
  [isPinching |-> FALSE, isSwipeActive |-> FALSE, lastHandPosition |-> <<>>,
   swipeDirection |-> Null, poseDetected |-> FALSE, bodyLean |-> 0,
   isFollowing |-> FALSE,
   followPosition |-> Point(0, 0), smoothedFollowPosition |-> Point(0, 0),
   isPainting |-> FALSE, paintingConfidence |-> 0, gestureHistory |-> <<>>,
   handVelocity |-> Point(0, 0), smoothedVelocity |-> Point(0, 0),
   isPlayGesture |-> FALSE, isStopGesture |-> FALSE, lastGestureTime |-> 0,
   gestureConfidence |-> 0, gestureCooldown |-> FALSE]

DefaultSmoothedValues ==
  [pinchStrength |-> 0, swipeVelocity |-> 0, bodyLean |-> 0, paintingPressure |-> 0,
   brushSize |-> CoordUnit \div 2]

CallbackSlots == {"onPinch", "onBrushSize", "onPaint", "onSwipe", "onColorPalette",
                  "onReset", "onFollow", "onBodyLean", "onGestureStart",
                  "onGestureEnd", "onPlay", "onStop", "onColorChange"}
DefaultCallbacks == [slot \in CallbackSlots |-> Null]

\* Math.sqrt, rounded down to the unit
RECURSIVE ISqrtBetween(_, _, _)
ISqrtBetween(n, lo, hi) ==
  IF lo >= hi THEN lo
  ELSE The({ IF mid * mid <= n THEN ISqrtBetween(n, mid, hi)
             ELSE ISqrtBetween(n, lo, mid - 1) : mid \in {(lo + hi + 1) \div 2} })
ISqrt(n) == The({ ISqrtBetween(m, 0, 4 * CoordUnit) : m \in {n} })

----------------------------------------------------------------------------
\* Hand landmark frames: 21 points, indices as MediaPipe numbers them
\* (thumb 2 MCP, 3 IP, 4 tip; index 5, 6, 8; middle 9, 10, 12; ring 13, 14,
\* 16; pinky 17, 18, 20).  A frame is built from the place of the index tip,
\* the thumb (kind "out", "in", or "at": its tip gap right of and rise below
\* the index tip)
\* and for each finger whether it points up.

Pct(n) == (n * CoordUnit) \div 100

FingerPoints(tip, up) ==
  IF up THEN [tip |-> tip, pip |-> Point(tip.x, tip.y + Pct(10)),
              mcp |-> Point(tip.x, tip.y + Pct(20))]
  ELSE [tip |-> tip, pip |-> Point(tip.x, tip.y - Pct(5)),
        mcp |-> Point(tip.x, tip.y - Pct(2))]

ThumbPoints(thumb, indexTip) ==
  IF thumb.kind = "out"
  THEN [tip |-> Point(Pct(15), Pct(80)), pip |-> Point(Pct(20), Pct(80)),
        mcp |-> Point(Pct(25), Pct(80))]
  ELSE IF thumb.kind = "in"
  THEN [tip |-> Point(Pct(23), Pct(80)), pip |-> Point(Pct(24), Pct(80)),
        mcp |-> Point(Pct(25), Pct(80))]
  ELSE [tip |-> Point(indexTip.x + thumb.gap, indexTip.y + thumb.rise),
        pip |-> Point(indexTip.x + thumb.gap + Pct(1), indexTip.y + thumb.rise + Pct(3)),
        mcp |-> Point(indexTip.x + thumb.gap + Pct(2), indexTip.y + thumb.rise + Pct(6))]

ThumbOut == [kind |-> "out", gap |-> 0, rise |-> 0]
ThumbIn == [kind |-> "in", gap |-> 0, rise |-> 0]
ThumbAt(gap) == [kind |-> "at", gap |-> gap, rise |-> 0]
ThumbOff(gap, rise) == [kind |-> "at", gap |-> gap, rise |-> rise]

MakeHand(indexTip, thumb, indexUp, middleUp, ringUp, pinkyUp) ==
  LET t == ThumbPoints(thumb, indexTip)
      i == FingerPoints(indexTip, indexUp)
      m == FingerPoints(Point(Pct(55), IF middleUp THEN Pct(30) ELSE Pct(62)), middleUp)
      r == FingerPoints(Point(Pct(60), IF ringUp THEN Pct(32) ELSE Pct(62)), ringUp)
      p == FingerPoints(Point(Pct(65), IF pinkyUp THEN Pct(36) ELSE Pct(62)), pinkyUp)
      wrist == Point(Pct(50), Pct(90))
  IN  [k \in 0..20 |->
         CASE k = 2 -> t.mcp [] k = 3 -> t.pip [] k = 4 -> t.tip
           [] k = 5 -> i.mcp [] k = 6 -> i.pip [] k = 8 -> i.tip
           [] k = 9 -> m.mcp [] k = 10 -> m.pip [] k = 12 -> m.tip
           [] k = 13 -> r.mcp [] k = 14 -> r.pip [] k = 16 -> r.tip
           [] k = 17 -> p.mcp [] k = 18 -> p.pip [] k = 20 -> p.tip
           [] OTHER -> wrist]

----------------------------------------------------------------------------
\* GestureManager: pure helpers

\* smoothValue: current * this.smoothingFactor + target * (1 - this.smoothingFactor)
gestureSmoothValue(current, target) ==
  (current * GestureSmoothing + target * (100 - GestureSmoothing)) \div 100

\* Variant of detectPinch: the strength grows with the distance.
detectPinchGrowing(landmarks) ==
  LET dx == landmarks[4].x - landmarks[8].x
      dy == landmarks[4].y - landmarks[8].y
  IN  Min(CoordUnit, ISqrt(dx * dx + dy * dy) * 10)

\* Variant of detectPinch: no Math.max(0, ...).
detectPinchUnclamped(landmarks) ==
  LET dx == landmarks[4].x - landmarks[8].x
      dy == landmarks[4].y - landmarks[8].y
  IN  CoordUnit - ISqrt(dx * dx + dy * dy) * 10

\* detectPinch: Math.max(0, 1 - distance * 10)
detectPinch(landmarks) ==
  LET thumbTip == landmarks[4]
      indexTip == landmarks[8]
      dx == thumbTip.x - indexTip.x
      dy == thumbTip.y - indexTip.y
      distance == ISqrt(dx * dx + dy * dy)
  IN  Max(0, CoordUnit - distance * 10)

\* Variant of SwipeDirectionExtended: the larger axis wins, no factor.
SwipeDirectionNoFactor(deltaX, deltaY) ==
  IF Abs(deltaX) > Abs(deltaY)
  THEN (IF deltaX > 0 THEN "right" ELSE "left")
  ELSE IF Abs(deltaY) > Abs(deltaX)
  THEN (IF deltaY > 0 THEN "down" ELSE "up")
  ELSE "none"

\* The direction of a displacement above the velocity threshold, extended
\* manager: an axis must dominate the other by the factor 1.5
SwipeDirectionExtended(deltaX, deltaY) ==
  IF Abs(deltaX) * 10 > Abs(deltaY) * 15
  THEN (IF deltaX > 0 THEN "right" ELSE "left")
  ELSE IF Abs(deltaY) * 10 > Abs(deltaX) * 15
  THEN (IF deltaY > 0 THEN "down" ELSE "up")
  ELSE "none"

\* The same in the basic manager: the larger axis wins
SwipeDirectionBasic(deltaX, deltaY) ==
  IF Abs(deltaX) > Abs(deltaY)
  THEN (IF deltaX > 0 THEN "right" ELSE "left")
  ELSE (IF deltaY > 0 THEN "down" ELSE "up")

NoSwipe == [isSwipe |-> FALSE, direction |-> "none", velocity |-> 0]

\* detectSwipe: the result for the index tip of this frame and
\* gestureState.lastHandPosition (which the caller then sets to the tip)
detectSwipe(landmarks, lastHandPosition, v) ==
  LET indexTip == landmarks[8]
  IN  IF lastHandPosition = <<>> THEN NoSwipe
      ELSE LET deltaX == indexTip.x - lastHandPosition[1].x
               deltaY == indexTip.y - lastHandPosition[1].y
               velocity == ISqrt(deltaX * deltaX + deltaY * deltaY)
               direction == IF v = "extended"
                            THEN SwipeDirectionExtended(deltaX, deltaY)
                            ELSE SwipeDirectionBasic(deltaX, deltaY)
               fast == deltaX * deltaX + deltaY * deltaY > SwipeVelocity * SwipeVelocity
           IN  IF fast /\ direction # "none"
               THEN [isSwipe |-> TRUE, direction |-> direction, velocity |-> velocity]
               ELSE NoSwipe

\* isFingerExtended(landmarks, tipIndex)
isFingerExtended(landmarks, tipIndex) ==
  IF tipIndex \notin {4, 8, 12, 16, 20} THEN FALSE
  ELSE LET pipIndex == IF tipIndex = 4 THEN 3 ELSE tipIndex - 2
           tip == landmarks[tipIndex]
           pip == landmarks[pipIndex]
       IN  IF tipIndex = 4 THEN Abs(tip.x - pip.x) > ThumbExtendedMargin
           ELSE tip.y < pip.y - FingerMargin

\* The extendedFingers counter of detectOpenPalm
ExtendedFingers(landmarks) ==
  LET fingerTips == <<4, 8, 12, 16, 20>>
      fingerMCPs == <<2, 5, 9, 13, 17>>
      counted(i) == LET tip == landmarks[fingerTips[i]]
                        mcp == landmarks[fingerMCPs[i]]
                    IN  IF i = 1 THEN Abs(tip.x - mcp.x) > PalmThumbMargin
                        ELSE tip.y < mcp.y - FingerMargin
  IN  Cardinality({ i \in 1..5 : counted(i) })

\* Variant of detectOpenPalm: three fingers are enough.
detectOpenPalmThree(landmarks) == ExtendedFingers(landmarks) >= OpenPalmFingers - 1

\* detectOpenPalm: extendedFingers >= 4
detectOpenPalm(landmarks) == ExtendedFingers(landmarks) >= OpenPalmFingers

\* Variant of OnlyIndexExtended: the other fingers are not looked at.
IndexExtendedOnlyChecked(landmarks) == isFingerExtended(landmarks, 8)

\* The pose both the follow and the painting classifier look for
OnlyIndexExtended(landmarks) ==
  /\ isFingerExtended(landmarks, 8)
  /\ ~isFingerExtended(landmarks, 12)
  /\ ~isFingerExtended(landmarks, 16)
  /\ ~isFingerExtended(landmarks, 20)

\* detectPaintingGesture
detectPaintingGesture(landmarks, smoothedVelocity) ==
  LET indexTip == landmarks[8]
      confidence == IF OnlyIndexExtended(landmarks)
                    THEN (8 * CoordUnit) \div 10
                         + (IF isFingerExtended(landmarks, 4) THEN 0
                            ELSE (2 * CoordUnit) \div 10)
                    ELSE 0
      velocity == ISqrt(smoothedVelocity.x * smoothedVelocity.x
                        + smoothedVelocity.y * smoothedVelocity.y)
      pressure == Max(CoordUnit \div 10, Min(CoordUnit, CoordUnit - velocity * 10))
  IN  [isPainting |-> confidence > PaintingThreshold,
       confidence |-> confidence,
       position |-> Point((indexTip.x - CoordUnit \div 2) * 2,
                          (CoordUnit \div 2 - indexTip.y) * 2),
       pressure |-> pressure]

----------------------------------------------------------------------------
\* GestureManager: the handlers.  A handler works on a record w of the state
\* it may change (gs: gestureState, sv: smoothedValues, timers, swipes: the
\* swipe log) and of what it did (calls, threw, the locals swipeData, delta,
\* pinch: the raw pinch strength, palmCount, followRan: processFollowGesture
\* began).  A callback that throws ends the handler where it stands.

\* if (this.callbacks[slot]) this.callbacks[slot](...args)
Call(w, slot, args) ==
  IF callbacks[slot] = Null THEN w
  ELSE [w EXCEPT !.calls = Append(@, [slot |-> slot, cb |-> callbacks[slot],
                                      args |-> args]),
                 !.threw = (callbacks[slot] = "thrower")]

\* Variant of PinchActive: any strength above zero counts.
PinchActiveAboveZero(pinchStrength) == pinchStrength > 0

\* processHandGestures: if (pinchStrength > 0.3)
PinchActive(pinchStrength) == pinchStrength > PinchThreshold

\* processHandGestures, pinch
PinchStep(w, landmarks) ==
  IF w.threw THEN w
  ELSE The({
         IF PinchActive(pinchStrength)
         THEN The({ IF w2.threw \/ variant # "extended" THEN w2
                    ELSE Call(w2, "onBrushSize", <<w2.sv.pinchStrength>>) :
                    w2 \in { Call([w EXCEPT !.gs.isPinching = TRUE,
                                            !.sv.pinchStrength = s,
                                            !.pinch = pinchStrength],
                                  "onPinch", <<s>>) :
                             s \in {gestureSmoothValue(w.sv.pinchStrength,
                                                       pinchStrength)} } })
         ELSE [w EXCEPT !.gs.isPinching = FALSE, !.pinch = pinchStrength] :
         pinchStrength \in {detectPinch(landmarks)} })

\* processHandGestures, painting (extended manager only)
PaintStep(w, landmarks) ==
  IF w.threw \/ variant # "extended" THEN w
  ELSE The({
         IF d.isPainting
         THEN Call([w EXCEPT !.gs.isPainting = TRUE,
                             !.gs.paintingConfidence = d.confidence],
                   "onPaint", <<d.position.x, d.position.y, d.pressure>>)
         ELSE [w EXCEPT !.gs.isPainting = FALSE] :
         d \in {detectPaintingGesture(landmarks, w.gs.smoothedVelocity)} })

\* Variant of SwipeMayFire: a following hand may swipe.
SwipeMayFireWhileFollowing(gs) == ~gs.isSwipeActive

\* Variant of SwipeMayFire: the lock is not consulted.
SwipeMayFireUnlocked(gs) == variant = "extended" => ~gs.isFollowing

\* The guard of the swipe dispatch besides swipeData.isSwipe
SwipeMayFire(gs) ==
  /\ ~gs.isSwipeActive
  /\ variant = "extended" => ~gs.isFollowing

\* The dispatch of a detected swipe: the lock, onSwipe, onColorPalette
\* (extended manager), the unlock timer.  w already holds lastHandPosition.
DispatchSwipe(w, swipeData, t) ==
  The({ IF w4.threw THEN w4
        ELSE [w4 EXCEPT !.timers = Append(@, t + Cooldown(variant))] :
        w4 \in { IF w3.threw \/ variant # "extended" THEN w3
                 ELSE Call(w3, "onColorPalette", <<swipeData.direction>>) :
                 w3 \in { Call([w EXCEPT
                                  !.gs.isSwipeActive = TRUE,
                                  !.gs.swipeDirection = swipeData.direction,
                                  !.swipes = IF callbacks["onSwipe"] = Null THEN @
                                             ELSE Append(@, [time |-> t,
                                                    direction |-> swipeData.direction,
                                                    pending |-> Len(w.timers)])],
                               "onSwipe",
                               <<swipeData.direction, swipeData.velocity>>) } } })

\* processHandGestures, swipe: detectSwipe, then the dispatch
SwipeStep(w, landmarks, t) ==
  IF w.threw THEN w
  ELSE The({
         The({ IF swipeData.isSwipe /\ SwipeMayFire(w.gs)
               THEN DispatchSwipe(w1, swipeData, t)
               ELSE w1 :
               w1 \in { [w EXCEPT
                          !.gs.lastHandPosition =
                             <<Point(landmarks[8].x, landmarks[8].y)>>,
                          !.swipeData = swipeData,
                          !.delta = IF w.gs.lastHandPosition = <<>> THEN <<>>
                                    ELSE <<Point(landmarks[8].x
                                                   - w.gs.lastHandPosition[1].x,
                                                 landmarks[8].y
                                                   - w.gs.lastHandPosition[1].y)>>] } }) :
         swipeData \in {detectSwipe(landmarks, w.gs.lastHandPosition, variant)} })

\* processHandGestures, open palm
PalmStep(w, landmarks) ==
  IF w.threw THEN w
  ELSE The({ IF detectOpenPalm(landmarks) THEN Call(w1, "onReset", <<>>) ELSE w1 :
             w1 \in {[w EXCEPT !.palmCount = ExtendedFingers(landmarks)]} })

\* The gesture state and the smoothed values as a step of the handler of a
\* hand has left them, kept for the record of the hand
Snap(w, step) ==
  The({ [v EXCEPT !.snaps = Append(@, [step |-> step, gs |-> v.gs, sv |-> v.sv])] :
        v \in {w} })

processHandGestures(w, landmarks, t) ==
  The({ Snap(PalmStep(w3, landmarks), "palm") :
         w3 \in { Snap(SwipeStep(w2, landmarks, t), "swipe") :
                  w2 \in { Snap(PaintStep(w1, landmarks), "paint") :
                           w1 \in {Snap(PinchStep(w, landmarks), "pinch")} } } })

\* Variant of FollowNormalize: the x coordinate is scaled but not centred.
FollowNormalizeUncentred(indexTip) ==
  Point(indexTip.x * 2, (CoordUnit \div 2 - indexTip.y) * 2)

\* processFollowGesture: normalizedX = (indexTip.x - 0.5) * 2,
\* normalizedY = (0.5 - indexTip.y) * 2
FollowNormalize(indexTip) ==
  Point((indexTip.x - CoordUnit \div 2) * 2, (CoordUnit \div 2 - indexTip.y) * 2)

\* processFollowGesture (extended manager only)
processFollowGesture(w, landmarks) ==
  IF w.threw \/ variant # "extended" THEN w
  ELSE LET indexTip == landmarks[8]
           normalizedX == FollowNormalize(indexTip).x
           normalizedY == FollowNormalize(indexTip).y
           deltaX == normalizedX - w.gs.followPosition.x
           deltaY == normalizedY - w.gs.followPosition.y
           shouldFollow == OnlyIndexExtended(landmarks)
       IN  The({
             IF w1.gs.isFollowing
             THEN Call(w1, "onFollow", <<w1.gs.smoothedFollowPosition.x,
                                         w1.gs.smoothedFollowPosition.y,
                                         w1.gs.isFollowing>>)
             ELSE w1 :
             w1 \in { [w EXCEPT
               !.followRan = TRUE,
               !.gs.handVelocity = Point(deltaX, deltaY),
               !.gs.smoothedVelocity =
                  Point(gestureSmoothValue(w.gs.smoothedVelocity.x, deltaX),
                        gestureSmoothValue(w.gs.smoothedVelocity.y, deltaY)),
               !.gs.followPosition = Point(normalizedX, normalizedY),
               !.gs.smoothedFollowPosition =
                  Point((w.gs.smoothedFollowPosition.x * FollowSmoothing
                           + normalizedX * (100 - FollowSmoothing)) \div 100,
                        (w.gs.smoothedFollowPosition.y * FollowSmoothing
                           + normalizedY * (100 - FollowSmoothing)) \div 100),
               !.gs.isFollowing = IF shouldFollow /\ ~w.gs.isFollowing THEN TRUE
                                  ELSE IF ~shouldFollow /\ w.gs.isFollowing THEN FALSE
                                  ELSE w.gs.isFollowing] } })

\* One pass of the loop of onHandResults over a hand
ProcessHand(st, landmarks, t) ==
  The({ [st |-> [gs |-> w.gs, sv |-> w.sv, timers |-> w.timers, swipes |-> w.swipes,
                 frame |-> st.frame],
         rec |-> [calls |-> w.calls, threw |-> w.threw, swipeData |-> w.swipeData,
                  delta |-> w.delta, palmCount |-> w.palmCount,
                  landmarks |-> landmarks, pinch |-> w.pinch, frame |-> st.frame,
                  pinchBefore |-> st.sv.pinchStrength,
                  pinchAfter |-> w.sv.pinchStrength,
                  followRan |-> w.followRan, snaps |-> w.snaps,
                  followPosition |-> w.gs.followPosition,
                  smoothedFollowPosition |-> w.gs.smoothedFollowPosition,
                  followBefore |-> st.gs.isFollowing,
                  followAfter |-> w.gs.isFollowing]] :
        w \in { Snap(processFollowGesture(wh, landmarks), "follow") :
                wh \in { processHandGestures(w0, landmarks, t) :
                         w0 \in {[gs |-> st.gs, sv |-> st.sv, timers |-> st.timers,
                                  swipes |-> st.swipes, calls |-> <<>>,
                                  threw |-> FALSE, swipeData |-> NoSwipe,
                                  delta |-> <<>>, palmCount |-> 0, pinch |-> 0,
                                  followRan |-> FALSE,
                                  snaps |-> <<[step |-> "start", gs |-> st.gs,
                                               sv |-> st.sv]>>]} } } })

\* for (const landmarks of results.multiHandLandmarks) { ... }
RECURSIVE ProcessHands(_, _, _, _)
ProcessHands(st, hands, t, log) ==
  IF hands = <<>> THEN [st |-> st, log |-> log]
  ELSE The({ IF r.rec.threw THEN [st |-> r.st, log |-> Append(log, r.rec)]
             ELSE ProcessHands(r.st, Tail(hands), t, Append(log, r.rec)) :
             r \in {ProcessHand(st, Head(hands), t)} })

NoPose == [calls |-> <<>>, threw |-> FALSE, frame |-> 0]

GestureInit ==
  /\ variant \in {"extended", "basic"}
  /\ isEnabled = FALSE
  /\ cameraStarting = 0
  /\ gestureState = DefaultGestureState
  /\ smoothedValues = DefaultSmoothedValues
  /\ callbacks = DefaultCallbacks
  /\ swipeTimers = <<>>
  /\ handLog = <<>>
  /\ swipeLog = <<>>
  /\ frames = 0
  /\ poseLog = NoPose
  /\ registrations = [slot \in CallbackSlots |-> <<>>]
  /\ toggleLog = [calls |-> <<>>, started |-> 0]

\* Variant of ResultsDropped: results are processed whatever isEnabled is.
ResultsDroppedNever(enabled) == FALSE
\* onHandResults, onPoseResults: if (!this.isEnabled) return
ResultsDropped(enabled) == ~enabled

\* onHandResults(results), results.multiHandLandmarks = hands
OnHandResults(hands) ==
  /\ frames' = frames + 1
  /\ IF ResultsDropped(isEnabled)
     THEN /\ handLog' = <<>>
          /\ UNCHANGED <<gestureState, smoothedValues, swipeTimers, swipeLog>>
     ELSE \E r \in {ProcessHands([gs |-> gestureState, sv |-> smoothedValues,
                                   timers |-> swipeTimers, swipes |-> swipeLog,
                                   frame |-> frames + 1],
                                  hands, now, <<>>)} :
            /\ gestureState' = r.st.gs
            /\ smoothedValues' = r.st.sv
            /\ swipeTimers' = r.st.timers
            /\ swipeLog' = r.st.swipes
            /\ handLog' = r.log
  /\ UNCHANGED <<now, audioVars, variant, isEnabled, cameraStarting, callbacks,
                 poseLog, registrations, toggleLog>>

\* The callback of setTimeout(() => { this.gestureState.isSwipeActive = false }, ms)
SwipeTimerFires ==
  \E i \in 1..Len(swipeTimers) :
    /\ swipeTimers[i] <= now
    /\ swipeTimers' = SubSeq(swipeTimers, 1, i - 1)
                        \o SubSeq(swipeTimers, i + 1, Len(swipeTimers))
    /\ gestureState' = [gestureState EXCEPT !.isSwipeActive = FALSE]
    /\ UNCHANGED <<now, audioVars, variant, isEnabled, cameraStarting, smoothedValues,
                   callbacks, handLog, swipeLog, frames, poseLog,
                 registrations, toggleLog>>

\* The last n elements of a sequence
LastN(seq, n) == IF Len(seq) > n THEN SubSeq(seq, Len(seq) - n + 1, Len(seq)) ELSE seq

\* if (this.callbacks.onGestureStart) this.callbacks.onGestureStart(), and the
\* same for onGestureEnd: the log keeps the last two calls
GestureCall(calls, slot) ==
  IF callbacks[slot] = Null THEN calls
  ELSE LastN(Append(calls, slot), 2)

\* toggleGestures(): when disabled it awaits camera.start(); when enabled it
\* stops the camera and clears isEnabled.  gestureState is not touched.
ToggleGesturesWithin(maxPending) ==
  /\ IF ~isEnabled
     THEN /\ cameraStarting < maxPending
          /\ cameraStarting' = cameraStarting + 1
          /\ UNCHANGED <<isEnabled, toggleLog>>
     ELSE /\ isEnabled' = FALSE
          /\ toggleLog' = [calls |-> GestureCall(toggleLog.calls, "onGestureEnd"),
                           started |-> 0]
          /\ UNCHANGED cameraStarting
  /\ UNCHANGED <<now, audioVars, variant, gestureState, smoothedValues, callbacks,
                 swipeTimers, handLog, swipeLog, frames, poseLog,
                 registrations>>

ToggleGestures == ToggleGesturesWithin(MaxPendingStarts)

\* destroy(): this.camera.stop(), hands.close(), pose.close().  isEnabled is
\* left as it is and onGestureEnd is not called.
DestroyGestures ==
  /\ toggleLog' = [toggleLog EXCEPT !.started = 0]
  /\ UNCHANGED <<now, audioVars, variant, isEnabled, cameraStarting, gestureState,
                 smoothedValues, callbacks, swipeTimers, handLog, swipeLog, frames,
                 poseLog, registrations>>

\* camera.start() resolved: this.isEnabled = true
CameraStarted ==
  /\ cameraStarting > 0
  /\ cameraStarting' = cameraStarting - 1
  /\ isEnabled' = TRUE
  /\ toggleLog' = [calls |-> GestureCall(toggleLog.calls, "onGestureStart"),
                   started |-> toggleLog.started + 1]
  /\ UNCHANGED <<now, audioVars, variant, gestureState, smoothedValues, callbacks,
                 swipeTimers, handLog, swipeLog, frames, poseLog,
                 registrations>>

\* camera.start() rejected: the catch branch shows the error, isEnabled stays
CameraFailed ==
  /\ cameraStarting > 0
  /\ cameraStarting' = cameraStarting - 1
  /\ UNCHANGED <<now, audioVars, variant, isEnabled, gestureState, smoothedValues,
                 callbacks, swipeTimers, handLog, swipeLog, frames, poseLog,
                 registrations, toggleLog>>

\* The registration methods a manager has: the basic one has none for the
\* follow and paint slots, and calling a missing one throws a TypeError that
\* leaves the manager as it was.
RegistrationMethods(v) ==
  IF v = "extended" THEN CallbackSlots
  ELSE CallbackSlots \ {"onFollow", "onPaint", "onBrushSize", "onColorPalette"}

\* Variant of Register: a slot that is taken keeps its callback.
RegisterKeepingFirst(slot, cb) ==
  /\ slot \in RegistrationMethods(variant)
  /\ callbacks' = IF callbacks[slot] = Null THEN [callbacks EXCEPT ![slot] = cb]
                  ELSE callbacks
  /\ registrations' = [registrations EXCEPT
                         ![slot] = Append(@, [cb |-> cb, at |-> frames])]
  /\ UNCHANGED <<now, audioVars, variant, isEnabled, cameraStarting, gestureState,
                 smoothedValues, swipeTimers, handLog, swipeLog, frames, poseLog,
                 toggleLog>>

\* onPinch(cb), onSwipe(cb), ...: this.callbacks[slot] = callback
Register(slot, cb) ==
  /\ slot \in RegistrationMethods(variant)
  /\ callbacks' = [callbacks EXCEPT ![slot] = cb]
  /\ registrations' = [registrations EXCEPT
                         ![slot] = Append(@, [cb |-> cb, at |-> frames])]
  /\ UNCHANGED <<now, audioVars, variant, isEnabled, cameraStarting, gestureState,
                 smoothedValues, swipeTimers, handLog, swipeLog, frames, poseLog,
                 toggleLog>>

\* processBodyGestures: Math.sin(Math.atan2(dy, dx)) * 2 of the shoulder line
BodyLean(leftShoulder, rightShoulder) ==
  LET dx == rightShoulder.x - leftShoulder.x
      dy == rightShoulder.y - leftShoulder.y
  IN  The({ IF hyp = 0 THEN 0 ELSE (2 * dy * CoordUnit) \div hyp :
            hyp \in {ISqrt(dx * dx + dy * dy)} })

\* Variant of OnPoseResults: the lean is kept in the gesture state as well.
OnPoseResultsStoringLean(pose) ==
  /\ frames' = frames + 1
  /\ IF ~isEnabled \/ pose = <<>>
     THEN UNCHANGED <<smoothedValues, poseLog, gestureState>>
     ELSE \E lean \in {gestureSmoothValue(smoothedValues.bodyLean,
                                           BodyLean(pose[1].left, pose[1].right))} :
            /\ smoothedValues' = [smoothedValues EXCEPT !.bodyLean = lean]
            /\ gestureState' = [gestureState EXCEPT !.bodyLean = lean,
                                                    !.poseDetected = TRUE]
            /\ poseLog' = [calls |-> IF callbacks["onBodyLean"] = Null THEN <<>>
                                     ELSE <<[slot |-> "onBodyLean",
                                             cb |-> callbacks["onBodyLean"],
                                             args |-> <<lean>>]>>,
                           threw |-> callbacks["onBodyLean"] = "thrower",
                           frame |-> frames + 1]
  /\ UNCHANGED <<now, audioVars, variant, isEnabled, cameraStarting,
                 callbacks, swipeTimers, handLog, swipeLog, registrations, toggleLog>>

\* onPoseResults(results), results.poseLandmarks = pose: <<>> when there is
\* none, else the one-element sequence of [left, right], the landmarks 11, 12
OnPoseResults(pose) ==
  /\ frames' = frames + 1
  /\ IF ResultsDropped(isEnabled) \/ pose = <<>>
     THEN UNCHANGED <<smoothedValues, poseLog>>
     ELSE \E lean \in {gestureSmoothValue(smoothedValues.bodyLean,
                                           BodyLean(pose[1].left, pose[1].right))} :
            /\ smoothedValues' = [smoothedValues EXCEPT !.bodyLean = lean]
            /\ poseLog' = [calls |-> IF callbacks["onBodyLean"] = Null THEN <<>>
                                     ELSE <<[slot |-> "onBodyLean",
                                             cb |-> callbacks["onBodyLean"],
                                             args |-> <<lean>>]>>,
                           threw |-> callbacks["onBodyLean"] = "thrower",
                           frame |-> frames + 1]
  /\ UNCHANGED <<now, audioVars, variant, isEnabled, cameraStarting, gestureState,
                 callbacks, swipeTimers, handLog, swipeLog, registrations, toggleLog>>

\* Time passes between gesture events.
AdvanceGestureTime(dt) ==
  /\ now + dt <= StartTime + MaxGestureTime
  /\ now' = now + dt
  /\ UNCHANGED <<audioVars, gestureVars>>

----------------------------------------------------------------------------
\* Specifications of the audio engine.  Each runs the same operations; they
\* differ in the inputs the environment supplies.

Uniform(m) == [i \in 1..NumBins |-> m]
BassArrays == { Uniform(m) : m \in Magnitudes }
SensitivityInputs == {0, 10, 30, 50}

InitAudio == now = StartTime /\ AudioInit /\ GestureInit /\ variant = "extended"

\* Beat timing: three bass levels, ticks at any multiple of TimeStep.
NextBeatTiming ==
  \/ AdvanceTime
  \/ LoadAudioBuffer
  \/ AudioLoaded
  \/ LoadCustomAudioBuffer
  \/ Play
  \/ \E cb \in {"a", "thrower"} : Len(beatCallbacks) < 1 /\ OnBeat(cb)
  \/ \E arr \in BassArrays : ticks < MaxTicks /\ Update(arr)

SpecBeatTiming == InitAudio /\ [][NextBeatTiming]_vars

\* Band analysis: every array of FrequencyArrays, every sensitivity.
NextBands ==
  \/ LoadAudioBuffer
  \/ AudioLoaded
  \/ LoadCustomAudioBuffer
  \/ Play
  \/ Pause
  \/ \E v \in SensitivityInputs : SetSensitivity(v)
  \/ \E arr \in FrequencyArrays : ticks < MaxBandTicks /\ Update(arr)

SpecBands == InitAudio /\ [][NextBands]_vars

\* Beat dispatch: every list of callbacks, silence and full scale.
NextBeatDispatch ==
  \/ AdvanceTime
  \/ LoadAudioBuffer
  \/ AudioLoaded
  \/ LoadCustomAudioBuffer
  \/ Play
  \/ \E cb \in BeatCallbackValues : OnBeat(cb)
  \/ \E arr \in {Uniform(0), Uniform(255)} : ticks < MaxCallbackTicks /\ Update(arr)

SpecBeatDispatch == InitAudio /\ [][NextBeatDispatch]_vars

\* Beat registry: callbacks are registered and removed in any order, then
\* a beat fires (silence, then full scale).
NextBeatRegistry ==
  \/ LoadAudioBuffer
  \/ AudioLoaded
  \/ LoadCustomAudioBuffer
  \/ Play
  \/ \E cb \in BeatCallbackValues : OnBeat(cb)
  \/ \E cb \in {"a", "b"} : RemoveBeatCallback(cb)
  \/ \E arr \in {Uniform(0), Uniform(255)} : ticks < MaxRegistryTicks /\ Update(arr)

SpecBeatRegistry == InitAudio /\ [][NextBeatRegistry]_vars

\* Settings: the two setters on values inside and outside their ranges.
SettingSensitivities == {0, 5, 20, 50}
SettingSmoothings == {0, 50, 99}

NextSettings ==
  \/ LoadAudioBuffer
  \/ AudioLoaded
  \/ LoadCustomAudioBuffer
  \/ Play
  \/ Pause
  \/ \E v \in SettingSensitivities : SetSensitivity(v)
  \/ \E v \in SettingSmoothings : SetSmoothing(v)
  \/ ticks < MaxSettingTicks /\ Update(Uniform(255))

SpecSettings == InitAudio /\ [][NextSettings]_vars

\* The visualizer: its audio callbacks are set up and cleaned up around
\* ticks on silence and at full scale, next to another beat consumer.
NextVisualizer ==
  \/ LoadAudioBuffer
  \/ AudioLoaded
  \/ LoadCustomAudioBuffer
  \/ Play
  \/ Len(beatCallbacks) < 1 /\ OnBeat("a")
  \/ SetupAudioCallbacks
  \/ DestroyVisualizer
  \/ \E arr \in {Uniform(0), Uniform(255)} : ticks < MaxVisualizerTicks /\ Update(arr)

SpecVisualizer == InitAudio /\ [][NextVisualizer]_vars

\* The fade: a few analysed ticks at full scale or on silence while playing,
\* and update() called again and again while not playing.  The animation
\* loop calls update() on every frame, so a fade tick that stays possible is
\* taken.
FadeTick == ~isPlaying /\ ticks < MaxFadeTicks + MaxFadeLength /\ Update(<<>>)

NextFade ==
  \/ LoadAudioBuffer
  \/ AudioLoaded
  \/ LoadCustomAudioBuffer
  \/ Play
  \/ Pause
  \/ \E arr \in {Uniform(0), Uniform(255)} :
       isPlaying /\ ticks < MaxFadeTicks /\ Update(arr)
  \/ FadeTick

SpecFade == InitAudio /\ [][NextFade]_vars /\ WF_vars(FadeTick)

\* The end-to-end scenario: a fresh manager, detectBeats() every 200 ms on a
\* bass energy of 0.2 or 0.9.
ScenarioBass == {EnergyUnit \div 5, (9 * EnergyUnit) \div 10}  \* 0.2 and 0.9

NextScenario ==
  \E b \in ScenarioBass : ticks < ScenarioTicks /\ FeedBass(b, 200)

SpecScenario == InitAudio /\ [][NextScenario]_vars

\* The rolling history: detectBeats() every 150 ms on a bass energy of 0.2 or
\* 0.9, for more ticks than the history holds.
HistoryStep == 150

NextBeatHistory ==
  \E b \in ScenarioBass : ticks < MaxHistoryTicks /\ FeedBass(b, HistoryStep)

SpecBeatHistory == InitAudio /\ [][NextBeatHistory]_vars

\* A steady bass: detectBeats() every 150 or 250 ms on a bass energy of 0,
\* 0.2 or 0.9 that, after the first ticks, keeps the value of the tick
\* before, for more ticks than the history holds.
SteadyBass == {0} \cup ScenarioBass

NextSteadyBass ==
  \E b \in SteadyBass, dt \in {HistoryStep, 250} :
    /\ ticks < MaxConstantTicks
    /\ ticks < ConstantPrefix \/ b = frequencyData.bass
    /\ FeedBass(b, dt)

SpecSteadyBass == InitAudio /\ [][NextSteadyBass]_vars

----------------------------------------------------------------------------
\* Specifications of the gesture engine.

InitGesture == now = StartTime /\ AudioInit /\ GestureInit

GestureTimeSteps == {300, 500}

\* Swipes: a closed hand whose index tip moves over a grid, in both managers,
\* with an onSwipe consumer that returns or throws.
SwipeTips == {Point(Pct(40), Pct(40)), Point(Pct(50), Pct(40)),
              Point(Pct(50), Pct(45)), Point(Pct(50), Pct(48))}
SwipeFrames == { <<MakeHand(tip, ThumbIn, FALSE, FALSE, FALSE, FALSE)>> :
                   tip \in SwipeTips }

NextSwipe ==
  \/ \E dt \in GestureTimeSteps : AdvanceGestureTime(dt)
  \/ isEnabled = FALSE /\ frames = 0 /\ ToggleGestures
  \/ CameraStarted
  \/ \E cb \in {"a", "thrower"} :
       callbacks["onSwipe"] = Null /\ frames = 0 /\ Register("onSwipe", cb)
  \/ \E hands \in SwipeFrames : isEnabled /\ frames < MaxSwipeFrames /\ OnHandResults(hands)
  \/ SwipeTimerFires

SpecSwipe == InitGesture /\ [][NextSwipe]_vars

\* Poses: one index-tip position, every pose the classifiers tell apart.
PoseTip == Point(Pct(50), Pct(40))
Fist == MakeHand(PoseTip, ThumbIn, FALSE, FALSE, FALSE, FALSE)
Pointing == MakeHand(PoseTip, ThumbIn, TRUE, FALSE, FALSE, FALSE)
PointingThumbOut == MakeHand(PoseTip, ThumbOut, TRUE, FALSE, FALSE, FALSE)
ThreeFingers == MakeHand(PoseTip, ThumbOut, TRUE, TRUE, FALSE, FALSE)
FourFingers == MakeHand(PoseTip, ThumbIn, TRUE, TRUE, TRUE, TRUE)
OpenPalm == MakeHand(PoseTip, ThumbOut, TRUE, TRUE, TRUE, TRUE)
Pinching == MakeHand(PoseTip, ThumbAt(Pct(1)), FALSE, FALSE, FALSE, FALSE)
Peace == MakeHand(PoseTip, ThumbIn, TRUE, TRUE, FALSE, FALSE)
PalmPinching == MakeHand(PoseTip, ThumbAt(Pct(1)), TRUE, TRUE, TRUE, TRUE)
\* A hand with curled fingers: each finger tip lies below its PIP joint and
\* above its MCP joint, the thumb is tucked in.
Curled ==
  [k \in 0..20 |->
     IF k \in {8, 12, 16, 20} THEN Point(Fist[k].x, Pct(50))
     ELSE IF k \in {6, 10, 14, 18} THEN Point(Fist[k + 2].x, Pct(45))
     ELSE IF k \in {5, 9, 13, 17} THEN Point(Fist[k + 3].x, Pct(60))
     ELSE Fist[k]]
Poses == {Fist, Pointing, PointingThumbOut, ThreeFingers, FourFingers, OpenPalm,
          Pinching, Peace, PalmPinching, Curled}
PoseFrames == { <<pose>> : pose \in Poses } \cup {<<>>, <<Pointing, Fist>>}

\* Pinches: closed hands whose thumb tip lies at a set of offsets from the
\* index tip, one or two hands per frame.
PinchOffsets == {<<0, 0>>, <<2, 0>>, <<5, 0>>, <<3, 4>>, <<9, 0>>, <<10, 0>>, <<15, 0>>}
PinchHands == { MakeHand(PoseTip, ThumbOff(Pct(o[1]), Pct(o[2])),
                         FALSE, FALSE, FALSE, FALSE) : o \in PinchOffsets }
PinchFrames == { <<h>> : h \in PinchHands }
                 \cup { <<h1, h2>> : h1 \in PinchHands, h2 \in PinchHands }

NextPinch ==
  \/ isEnabled = FALSE /\ frames = 0 /\ ToggleGestures
  \/ CameraStarted
  \/ \E cb \in {"a", "thrower"} :
       callbacks["onPinch"] = Null /\ frames = 0 /\ Register("onPinch", cb)
  \/ \E hands \in PinchFrames : frames < MaxPinchFrames /\ OnHandResults(hands)

SpecPinch == InitGesture /\ [][NextPinch]_vars

NextHands ==
  \/ ToggleGestures
  \/ CameraStarted
  \/ CameraFailed
  \/ \E slot \in {"onFollow", "onReset"} :
       callbacks[slot] = Null /\ frames = 0 /\ Register(slot, "a")
  \/ callbacks["onPinch"] = Null /\ frames = 0 /\ Register("onPinch", "thrower")
  \/ \E hands \in PoseFrames : frames < MaxHandFrames /\ OnHandResults(hands)

SpecHands == InitGesture /\ [][NextHands]_vars

\* Callback slots: the five gesture events are registered twice, with a before
\* the first frame and with b after it, around hand frames that pinch, point, swipe and open the palm and
\* pose frames with level and tilted shoulders.
GestureSlots == {"onPinch", "onSwipe", "onReset", "onFollow", "onBodyLean"}
SlotFrames == {<<Pointing>>, <<OpenPalm>>,
               <<MakeHand(Point(Pct(40), Pct(40)), ThumbAt(Pct(1)),
                           FALSE, FALSE, FALSE, FALSE)>>}
Shoulders(dx, dy) == [left |-> Point(Pct(40), Pct(50)),
                      right |-> Point(Pct(40) + dx, Pct(50) + dy)]
SlotPoses == {<<>>, <<Shoulders(Pct(20), 0)>>, <<Shoulders(Pct(3), Pct(4))>>}

NextSlots ==
  \/ isEnabled = FALSE /\ frames = 0 /\ ToggleGestures
  \/ CameraStarted
  \/ \E slot \in GestureSlots :
       \/ callbacks[slot] = Null /\ frames = 0 /\ Register(slot, "a")
       \/ callbacks[slot] = "a" /\ frames = 1 /\ Register(slot, "b")
  \/ \E hands \in SlotFrames : frames < MaxSlotFrames /\ OnHandResults(hands)
  \/ \E pose \in SlotPoses : frames < MaxSlotFrames /\ OnPoseResults(pose)

SpecSlots == InitGesture /\ [][NextSlots]_vars

\* Two hands: a closed left and a closed right hand that keep their places,
\* alone or together in a frame, with an onSwipe consumer.
LeftHand == MakeHand(Point(Pct(40), Pct(40)), ThumbIn, FALSE, FALSE, FALSE, FALSE)
RightHand == MakeHand(Point(Pct(50), Pct(40)), ThumbIn, FALSE, FALSE, FALSE, FALSE)
TwoHandFrames == {<<LeftHand>>, <<RightHand>>, <<LeftHand, RightHand>>}

NextTwoHands ==
  \/ isEnabled = FALSE /\ frames = 0 /\ ToggleGestures
  \/ CameraStarted
  \/ callbacks["onSwipe"] = Null /\ frames = 0 /\ Register("onSwipe", "a")
  \/ \E hands \in TwoHandFrames : frames < MaxTwoHandFrames /\ OnHandResults(hands)

SpecTwoHands == InitGesture /\ [][NextTwoHands]_vars

\* Follow positions: pointing and closed hands whose index tip lies in the
\* corners and inside of the image, with an onFollow consumer.
FollowTips == {Point(0, 0), Point(CoordUnit, 0), Point(CoordUnit, CoordUnit),
               Point(Pct(50), Pct(40))}
FollowHands == { MakeHand(tip, ThumbIn, up, FALSE, FALSE, FALSE) :
                   tip \in FollowTips, up \in BOOLEAN }

NextFollow ==
  \/ isEnabled = FALSE /\ frames = 0 /\ ToggleGestures
  \/ CameraStarted
  \/ callbacks["onFollow"] = Null /\ frames = 0 /\ Register("onFollow", "a")
  \/ \E h \in FollowHands : frames < MaxFollowFrames /\ OnHandResults(<<h>>)

SpecFollow == InitGesture /\ [][NextFollow]_vars

\* Toggling: gestures are switched on and off any number of times, also while
\* an earlier camera.start() is pending, around hand and pose results that
\* are delivered whether or not gestures are enabled at that moment.
\* destroy() may stop the camera at any point.
ToggleSlots == {"onGestureStart", "onGestureEnd", "onPinch", "onBodyLean"}
ToggleFrames == {<<Pinching>>, <<OpenPalm>>}
TogglePoses == {<<Shoulders(Pct(3), Pct(4))>>}

NextToggle ==
  \/ callbacks["onGestureStart"] # Null /\ callbacks["onGestureEnd"] # Null
       /\ ToggleGesturesWithin(MaxToggleStarts)
  \/ CameraStarted
  \/ CameraFailed
  \/ DestroyGestures
  \/ \E slot \in ToggleSlots :
       /\ callbacks[slot] = Null /\ frames = 0 /\ ~isEnabled /\ cameraStarting = 0
       /\ Register(slot, "a")
  \/ \E hands \in ToggleFrames : frames < MaxToggleFrames /\ OnHandResults(hands)
  \/ \E pose \in TogglePoses : frames < MaxToggleFrames /\ OnPoseResults(pose)

SpecToggle == InitGesture /\ [][NextToggle]_vars

\* Playback: play and pause, a missing context, an empty array, every
\* smoothing factor, next to the pinch smoothing of the gesture engine.
SmoothingInputs == {0, 50, 99}
PlaybackArrays == {<<>>, Uniform(0), Uniform(255)}
PlaybackHands == { MakeHand(PoseTip, ThumbOff(Pct(gap), 0), FALSE, FALSE, FALSE, FALSE) :
                     gap \in {0, 2, 15} }

NextPlayback ==
  \/ LoadAudioBuffer
  \/ AudioLoaded
  \/ LoadCustomAudioBuffer
  \/ Play
  \/ Pause
  \/ Len(beatCallbacks) < 1 /\ OnBeat("a")
  \/ \E v \in SmoothingInputs : ticks < MaxPlaybackTicks /\ SetSmoothing(v)
  \/ \E arr \in PlaybackArrays : ticks < MaxPlaybackTicks /\ Update(arr)
  \/ isEnabled = FALSE /\ frames = 0 /\ ToggleGestures
  \/ CameraStarted
  \/ \E h \in PlaybackHands : frames < MaxPinchFrames /\ OnHandResults(<<h>>)

SpecPlayback == InitAudio /\ [][NextPlayback]_vars

----------------------------------------------------------------------------
\* Claims about the audio engine

\* C1 (SpecBeatTiming): any two successive beat firings are at least the
\* minimum inter-beat interval of 200 ms apart, whatever the timestamps and
\* the bass energies of the update() ticks are.
C1_BeatMinimumSpacing ==
  \A i \in 1..(Len(beatLog) - 1) :
    beatLog[i + 1].time - beatLog[i].time >= MinBeatInterval

\* C1 witness: two beats have fired and the last analysed tick was above the
\* threshold but was held back by the interval.
C1_Witness ==
  /\ Len(beatLog) >= 2
  /\ lastTick.kind = "analysed"
  /\ ~lastTick.beat
  /\ ExceedsMean(frequencyData.bass, beatHistory, BeatThresholdTenths)

\* C3 (SpecBands), as claimed: after any analysed tick every raw band energy
\* held in frequencyData lies in [0,1].
C3_RawBandsInUnitRange ==
  \A b \in DOMAIN frequencyData :
    frequencyData[b] >= 0 /\ frequencyData[b] <= EnergyUnit

\* C6 (SpecBeatDispatch), as claimed: on a tick that fired a beat every
\* registered callback function was invoked, in order, and peak detection ran,
\* also when one of the callbacks threw.
C6_ThrowingCallbackIsolated ==
  (lastTick.kind = "analysed" /\ lastTick.beat) =>
     /\ beatLog[Len(beatLog)].invoked =
          SelectSeq(beatLog[Len(beatLog)].registered, IsFunction)
     /\ lastTick.peaksRan

\* C8 (SpecScenario): a fresh manager fed the bass energies 0.2 x5, 0.9,
\* 0.2 x4 on ticks 200 ms apart fires exactly one beat, on tick 6.
ScenarioLow == EnergyUnit \div 5
ScenarioHigh == (9 * EnergyUnit) \div 10
ScenarioInput ==
  <<ScenarioLow, ScenarioLow, ScenarioLow, ScenarioLow, ScenarioLow,
    ScenarioHigh, ScenarioLow, ScenarioLow, ScenarioLow, ScenarioLow>>

C8_ScenarioOneBeatOnTickSix ==
  (ticks = Len(ScenarioInput) /\ beatHistory = ScenarioInput) =>
     /\ Len(beatLog) = 1
     /\ beatLog[1].tick = 6

\* C8 witness: the ten values have been fed and the beat of tick 6 is logged.
C8_Witness ==
  /\ ticks = Len(ScenarioInput)
  /\ beatHistory = ScenarioInput
  /\ Len(beatLog) = 1
  /\ beatLog[1].intensity = ScenarioHigh

\* C27 (SpecBeatHistory): every analysed tick first appends its raw bass to
\* the history, which keeps the 10 most recent samples, also when the beat
\* is held back by the interval; the tick fires a beat exactly if the bass
\* exceeds 1.3 times the mean of that history and more than 200 ms have
\* passed since lastBeatTime, and a firing tick sets lastBeatTime.
C27_DetectBeatsRule ==
  [][ ticks' = ticks + 1 =>
        /\ beatHistory' = LastN(Append(beatHistory, frequencyData'.bass), 10)
        /\ lastTick'.beat <=>
              /\ frequencyData'.bass * Len(beatHistory') * 10
                   > SumSeq(beatHistory') * 13
              /\ now' - lastBeatTime > 200
        /\ lastBeatTime' = IF lastTick'.beat THEN now' ELSE lastBeatTime
    ]_vars

\* C27 witness: the history is full and has dropped its oldest samples, and
\* the last tick exceeded the threshold but was held back by the interval
\* and is in the history all the same.
C27_Witness ==
  /\ ticks > 10
  /\ Len(beatHistory) = 10
  /\ ~lastTick.beat
  /\ ExceedsMean(frequencyData.bass, beatHistory, BeatThresholdTenths)
  /\ now - lastBeatTime <= MinBeatInterval
  /\ beatHistory[10] = frequencyData.bass

----------------------------------------------------------------------------
\* Claims about the gesture engine

HandRecords == { handLog[i] : i \in DOMAIN handLog }
CallsOf(rec, slot) == { i \in DOMAIN rec.calls : rec.calls[i].slot = slot }

\* C2 (SpecSwipe): once a swipe has been dispatched to onSwipe, no further
\* onSwipe call happens until the unlock timer of the cooldown has expired:
\* no dispatch happens while an unlock timer is pending or in a frame that
\* has already dispatched, and two dispatches are at least the cooldown of
\* the manager apart (800 ms extended, 500 ms basic), although every frame
\* in between may move the index tip far enough.
C2_SwipeCooldown ==
  /\ \A i \in DOMAIN swipeLog : swipeLog[i].pending = 0
  /\ \A i \in 1..(Len(swipeLog) - 1) :
       swipeLog[i + 1].time - swipeLog[i].time >= Cooldown(variant)
  /\ \A rec \in HandRecords : Cardinality(CallsOf(rec, "onSwipe")) <= 1

\* C2 witness: a swipe was dispatched, the classifier is locked with its
\* timer pending, and the last frame qualified as a swipe but called nothing.
C2_Witness ==
  /\ Len(swipeLog) = 1
  /\ gestureState.isSwipeActive
  /\ Len(swipeTimers) = 1
  /\ now > swipeLog[1].time
  /\ \E rec \in HandRecords : rec.swipeData.isSwipe /\ rec.calls = <<>>

\* C5 (SpecSwipe): the swipe classifier is never locked without a pending
\* unlock timer, also when the onSwipe consumer throws during the dispatch.
C5_SwipeLockAlwaysReleased ==
  gestureState.isSwipeActive => Len(swipeTimers) > 0

\* C9 (SpecSwipe): in the extended manager detectSwipe reports a swipe only
\* with one of the four directions, horizontal only when |dx| > 1.5 |dy|,
\* vertical only when |dy| > 1.5 |dx|, none when neither holds; (0.10, 0.08)
\* is no swipe and (0.10, 0.05) is a swipe to the right.
C9_SwipeDirectionDominance ==
  variant = "extended" =>
    \A rec \in HandRecords :
      rec.delta # <<>> =>
        LET dx == rec.delta[1].x
            dy == rec.delta[1].y
            horizontal == Abs(dx) * 2 > Abs(dy) * 3
            vertical == Abs(dy) * 2 > Abs(dx) * 3
            sd == rec.swipeData
        IN  /\ sd.isSwipe => sd.direction \in {"left", "right", "up", "down"}
            /\ sd.isSwipe /\ sd.direction \in {"left", "right"} => horizontal
            /\ sd.isSwipe /\ sd.direction \in {"up", "down"} => vertical
            /\ ~horizontal /\ ~vertical => ~sd.isSwipe
            /\ dx = Pct(10) /\ dy = Pct(8) => ~sd.isSwipe
            /\ dx = Pct(10) /\ dy = Pct(5) => sd.isSwipe /\ sd.direction = "right"

\* C9 witness: the extended manager has judged the displacement (0.10, 0.08).
C9_Witness ==
  /\ variant = "extended"
  /\ \E rec \in HandRecords :
       /\ rec.delta = <<Point(Pct(10), Pct(8))>>
       /\ ~rec.swipeData.isSwipe

\* C28 (SpecSwipe), as claimed: in the manager App.js imports (the basic one)
\* detectSwipe reports a horizontal swipe only if |dx| > 1.5 |dy|, a vertical
\* one only if |dy| > 1.5 |dx|, and no swipe otherwise; the displacement
\* (0.10, 0.08) is no swipe.
C28_BasicSwipeDominance ==
  variant = "basic" =>
    \A rec \in HandRecords :
      rec.delta # <<>> =>
        LET dx == rec.delta[1].x
            dy == rec.delta[1].y
            horizontal == Abs(dx) * 2 > Abs(dy) * 3
            vertical == Abs(dy) * 2 > Abs(dx) * 3
            sd == rec.swipeData
        IN  /\ sd.isSwipe /\ sd.direction \in {"left", "right"} => horizontal
            /\ sd.isSwipe /\ sd.direction \in {"up", "down"} => vertical
            /\ ~horizontal /\ ~vertical => ~sd.isSwipe
            /\ dx = Pct(10) /\ dy = Pct(8) => ~sd.isSwipe

\* C4 (SpecHands): every change of the follow activation within a hand frame
\* is delivered to the registered onFollow consumer by exactly one call that
\* carries the new activation: true on entering the pose, false on leaving.
C4_FollowChangeDelivered ==
  \A rec \in HandRecords :
    (callbacks["onFollow"] # Null /\ ~rec.threw
       /\ rec.followBefore # rec.followAfter) =>
      /\ Cardinality(CallsOf(rec, "onFollow")) = 1
      /\ \A i \in CallsOf(rec, "onFollow") : rec.calls[i].args[3] = rec.followAfter

\* C7 (SpecHands): while gesture recognition is disabled every field of the
\* gesture state and every smoothed value has its constructor default.
C7_DisabledStateIsDefault ==
  ~isEnabled =>
    gestureState = DefaultGestureState /\ smoothedValues = DefaultSmoothedValues

\* C10 (SpecHands): in each processed hand the reset consumer is called
\* exactly when detectOpenPalm counted at least 4 of the 5 fingers: never
\* with 3, always with 4.
C10_ResetNeedsFourFingers ==
  callbacks["onReset"] # Null =>
    \A rec \in HandRecords :
      /\ CallsOf(rec, "onReset") # {} <=> rec.palmCount >= 4
      /\ rec.palmCount = 3 => CallsOf(rec, "onReset") = {}
      /\ rec.palmCount = 4 => Cardinality(CallsOf(rec, "onReset")) = 1

\* C10 witness: a hand with exactly four counted fingers has fired the reset.
C10_Witness ==
  \E rec \in HandRecords :
    rec.palmCount = 4 /\ CallsOf(rec, "onReset") # {}

\* A finger other than the thumb is extended when its tip lies more than the
\* margin above its PIP joint (image y grows downwards).
FingerUp(landmarks, tipIndex) ==
  landmarks[tipIndex].y < landmarks[tipIndex - 2].y - FingerMargin

\* C11 (SpecHands): after processFollowGesture has handled a hand,
\* isFollowing holds exactly if the index finger is extended and none of
\* middle, ring and pinky is; a hand with index and middle both extended
\* leaves the follow mode inactive and calls onFollow with no isActive = true.
C11_FollowIffOnlyIndex ==
  \A rec \in HandRecords :
    rec.followRan =>
      /\ rec.followAfter <=>
           (/\ FingerUp(rec.landmarks, 8)
            /\ ~FingerUp(rec.landmarks, 12)
            /\ ~FingerUp(rec.landmarks, 16)
            /\ ~FingerUp(rec.landmarks, 20))
      /\ (FingerUp(rec.landmarks, 8) /\ FingerUp(rec.landmarks, 12)) =>
           /\ ~rec.followAfter
           /\ \A i \in CallsOf(rec, "onFollow") : rec.calls[i].args[3] # TRUE

\* C11 witness: the follow mode was active, onFollow is registered, and a
\* hand with index and middle extended has been handled.
C11_Witness ==
  /\ callbacks["onFollow"] # Null
  /\ \E rec \in HandRecords :
       /\ rec.followRan /\ rec.followBefore
       /\ FingerUp(rec.landmarks, 8) /\ FingerUp(rec.landmarks, 12)
       /\ ~FingerUp(rec.landmarks, 16)

\* The squared distance of thumb tip and index tip of a handled hand
ThumbIndexDistSq(rec) ==
  (rec.landmarks[4].x - rec.landmarks[8].x) * (rec.landmarks[4].x - rec.landmarks[8].x)
  + (rec.landmarks[4].y - rec.landmarks[8].y) * (rec.landmarks[4].y - rec.landmarks[8].y)

\* C12 (SpecPinch): detectPinch does not increase with the distance of thumb
\* tip and index tip: of two hands, the one with the smaller distance has at
\* least the strength of the other.
C12_PinchMonotone ==
  \A r1 \in HandRecords : \A r2 \in HandRecords :
    ThumbIndexDistSq(r1) < ThumbIndexDistSq(r2) => r1.pinch >= r2.pinch

\* C12 witness: two hands of one frame at different distances, both with a
\* strength above zero, the nearer one strictly stronger.
C12_Witness ==
  \E r1 \in HandRecords : \E r2 \in HandRecords :
    /\ ThumbIndexDistSq(r1) < ThumbIndexDistSq(r2)
    /\ r1.pinch > r2.pinch
    /\ r2.pinch > 0

\* C13 (SpecPinch): every raw strength detectPinch returns, every smoothed
\* strength stored in smoothedValues.pinchStrength and every strength passed
\* to onPinch lies in [0, 1].
C13_PinchInUnitRange ==
  /\ smoothedValues.pinchStrength \in 0..CoordUnit
  /\ \A rec \in HandRecords :
       /\ rec.pinch \in 0..CoordUnit
       /\ rec.pinchAfter \in 0..CoordUnit
       /\ \A i \in CallsOf(rec, "onPinch") : rec.calls[i].args[1] \in 0..CoordUnit

\* C13 witness: a hand beyond the distance 0.1 was given the strength 0 and
\* a smoothed strength above zero was delivered to onPinch.
C13_Witness ==
  /\ \E rec \in HandRecords :
       ThumbIndexDistSq(rec) > Pct(10) * Pct(10) /\ rec.pinch = 0
  /\ \E rec \in HandRecords : \E i \in CallsOf(rec, "onPinch") :
       rec.calls[i].args[1] > 0

InUnitSquare(p) ==
  /\ p.x >= -CoordUnit /\ p.x <= CoordUnit
  /\ p.y >= -CoordUnit /\ p.y <= CoordUnit

\* C26 (SpecFollow): for an index tip (x, y) in [0,1] x [0,1] the raw follow
\* position is ((x - 0.5) * 2, (0.5 - y) * 2), and the smoothed follow
\* position, in every state, and every (x, y) handed to onFollow lie in
\* [-1,1] x [-1,1].
C26_FollowPositionInRange ==
  /\ InUnitSquare(gestureState.followPosition)
  /\ InUnitSquare(gestureState.smoothedFollowPosition)
  /\ \A rec \in HandRecords :
       /\ rec.followRan =>
            /\ rec.followPosition.x = 2 * rec.landmarks[8].x - CoordUnit
            /\ rec.followPosition.y = CoordUnit - 2 * rec.landmarks[8].y
            /\ InUnitSquare(rec.smoothedFollowPosition)
       /\ \A i \in CallsOf(rec, "onFollow") :
            InUnitSquare(Point(rec.calls[i].args[1], rec.calls[i].args[2]))

\* C26 witness: onFollow was handed a position off the centre while the tip
\* sat in the corner (1, 0) of the image, the raw position being (1, 1).
C26_Witness ==
  \E rec \in HandRecords :
    /\ rec.followPosition = Point(CoordUnit, CoordUnit)
    /\ \E i \in CallsOf(rec, "onFollow") :
         rec.calls[i].args[1] > 0 /\ rec.calls[i].args[2] > 0

\* The fingers of a hand for which isFingerExtended returns true
FingersExtended(landmarks) ==
  { tipIndex \in {4, 8, 12, 16, 20} : isFingerExtended(landmarks, tipIndex) }

\* C29 (SpecHands), as claimed: for every hand the number of fingers counted
\* by detectOpenPalm equals the number of fingers for which isFingerExtended
\* returns true.
C29_PalmCountsExtendedFingers ==
  \A rec \in HandRecords :
    ExtendedFingers(rec.landmarks) = Cardinality(FingersExtended(rec.landmarks))

\* C30 (SpecTwoHands), as claimed: the displacement detectSwipe judges for a
\* hand is the difference between the index tip of that hand in this frame
\* and the index tip of the same hand (the hand at the same place of
\* multiHandLandmarks) in the previous frame, also in frames with two hands.
C30_SwipeDisplacementOfSameHand ==
  [][ frames' = frames + 1 =>
        \A k \in DOMAIN handLog' :
          (k \in DOMAIN handLog /\ handLog'[k].delta # <<>>) =>
            handLog'[k].delta[1] =
              Point(handLog'[k].landmarks[8].x - handLog[k].landmarks[8].x,
                    handLog'[k].landmarks[8].y - handLog[k].landmarks[8].y)
    ]_vars

\* C31 (SpecPinch): with an onPinch consumer registered, a hand of a processed
\* frame has onPinch invoked exactly if its raw pinch strength exceeds 0.3,
\* and then with the smoothed strength just updated from it; a hand at or
\* below 0.3 leaves the smoothed strength as it was; isPinching after the
\* frame tells whether the strength of its last hand exceeded 0.3.
C31_PinchCallbackIffActive ==
  /\ \A rec \in HandRecords :
       LET active == rec.pinch * 10 > 3 * CoordUnit
       IN  /\ callbacks["onPinch"] # Null =>
                (CallsOf(rec, "onPinch") # {} <=> active)
           /\ \A i \in CallsOf(rec, "onPinch") :
                /\ rec.calls[i].args = <<rec.pinchAfter>>
                /\ rec.pinchAfter = gestureSmoothValue(rec.pinchBefore, rec.pinch)
           /\ ~active => rec.pinchAfter = rec.pinchBefore
  /\ handLog # <<>> =>
       (gestureState.isPinching <=> handLog[Len(handLog)].pinch * 10 > 3 * CoordUnit)

\* C31 witness: a frame of two hands, the first with the strength 0.5 and a
\* call of onPinch, the second with the strength 0.1, no call and the
\* smoothed strength of the first hand kept.
C31_Witness ==
  /\ Len(handLog) = 2
  /\ handLog[1].pinch = CoordUnit \div 2
  /\ CallsOf(handLog[1], "onPinch") # {}
  /\ handLog[2].pinch = CoordUnit \div 10
  /\ CallsOf(handLog[2], "onPinch") = {}
  /\ handLog[2].pinchAfter = handLog[1].pinchAfter
  /\ handLog[2].pinchAfter > 0
  /\ ~gestureState.isPinching

\* C24 (SpecHands), as claimed: with a reset callback registered, every hand
\* of a processed frame that meets the open-palm condition (at least 4 of the
\* 5 fingers counted by detectOpenPalm) has the reset callback invoked, in
\* each frame anew since there is no cooldown.
C24_OpenPalmAlwaysResets ==
  callbacks["onReset"] # Null =>
    \A rec \in HandRecords :
      detectOpenPalm(rec.landmarks) => CallsOf(rec, "onReset") # {}

\* The number of calls of one callback slot made by the last hand frame
FrameCalls(slot) ==
  SumSeq([i \in DOMAIN handLog |-> Cardinality(CallsOf(handLog[i], slot))])

\* C25 (SpecHands), as claimed: once a frame has fired the reset, the next
\* frame does not fire it again unless time has passed in between (a cooldown
\* window of whatever length has not elapsed while the clock stands).
C25_ResetCooldown ==
  [][ (frames' = frames + 1 /\ now' = now /\ FrameCalls("onReset") > 0) =>
        FrameCalls("onReset")' = 0 ]_vars

\* C22 (SpecPinch), as claimed: a frame delivered to onHandResults invokes each
\* of the callbacks of the hand classifiers (pinch, swipe, reset, follow) at
\* most once, also when the frame holds two hands.
C22_OneCallPerFrame ==
  \A slot \in {"onPinch", "onSwipe", "onReset", "onFollow"} : FrameCalls(slot) <= 1

----------------------------------------------------------------------------
\* Claims about smoothing, decay and settings

Bands == {"bass", "mid", "treble", "overall"}

\* One smoothing step from s to t toward the input r with the factor a (in
\* hundredths): t lies between s and r, and its distance to r is at most a
\* times the distance of s, up to the one unit the fixed point rounds by.
Approaches(s, t, r, a) ==
  /\ s >= r => (t >= r /\ t <= s)
  /\ s <= r => (t <= r /\ t >= s)
  /\ Abs(t - r) * 100 <= a * Abs(s - r) + 99

\* C14 (SpecPlayback): every smoothing step, of the four audio bands under
\* every admissible smoothing factor and of the pinch strength under 0.8,
\* moves the smoothed value toward the raw input by the factor and never
\* past it; over N ticks of a constant input this is the bound a^N and the
\* sign of (smoothed - r) never flips.
C14_SmoothingApproaches ==
  [][ /\ (ticks' = ticks + 1 /\ lastTick'.kind = "analysed") =>
           \A b \in Bands :
             Approaches(smoothedData[b], smoothedData'[b], frequencyData'[b],
                        smoothingFactor)
      /\ (frames' = frames + 1 /\ Len(handLog') = 1
            /\ handLog'[1].pinch > PinchThreshold) =>
           Approaches(smoothedValues.pinchStrength, smoothedValues'.pinchStrength,
                      handLog'[1].pinch, GestureSmoothing) ]_vars

\* C14 witness: after two analysed ticks under the smallest factor the bass
\* lies strictly between its start and the raw input, and a pinch has been
\* smoothed twice.
C14_Witness ==
  /\ ticks >= 2
  /\ lastTick.kind = "analysed"
  /\ smoothingFactor = MinSmoothing
  /\ smoothedData.bass > 0
  /\ smoothedData.bass < frequencyData.bass
  /\ frames = 2
  /\ smoothedValues.pinchStrength > 0

\* C15 (SpecPlayback): an update() tick while not playing multiplies each of
\* the four smoothed bands by 0.95 and leaves the raw bands, both histories
\* and lastBeatTime as they are; no beat callback is invoked.
C15_DecayWhenNotPlaying ==
  [][ (ticks' = ticks + 1 /\ ~isPlaying) =>
        /\ \A b \in Bands : smoothedData'[b] = (smoothedData[b] * 95) \div 100
        /\ \A b \in Bands : smoothedData[b] > 1 => smoothedData'[b] < smoothedData[b]
        /\ UNCHANGED <<frequencyData, beatHistory, peakHistory, lastBeatTime, beatLog>>
    ]_vars

\* C15 witness: a decay tick after a beat was delivered, with smoothed
\* energy left.
C15_Witness ==
  /\ lastTick.kind = "decay"
  /\ smoothedData.bass > 0
  /\ beatLog # <<>>
  /\ beatCallbacks # <<>>

\* C16 (SpecPlayback): an analysis tick without audio context or with an
\* empty frequency array does not throw and leaves raw and smoothed bands,
\* both histories and both timestamps as they are; no callback is invoked.
C16_SkippedTickCoasts ==
  [][ (ticks' = ticks + 1 /\ isPlaying
         /\ (audio # "loaded" \/ frequencyArray' = <<>>)) =>
        /\ UNCHANGED <<frequencyData, smoothedData, beatHistory, peakHistory,
                       lastBeatTime, lastPeakTime, beatLog>>
        /\ ~lastTick'.threw
    ]_vars

\* C16 witness: a tick on an empty array was skipped with smoothed energy
\* and a beat callback in place.
C16_Witness ==
  /\ lastTick.kind = "skipped"
  /\ frequencyArray = <<>>
  /\ smoothedData.bass > 0
  /\ beatCallbacks # <<>>

\* C17 (SpecSettings): setSensitivity(v) leaves v clamped to [0.1, 3.0],
\* setSmoothing(v) leaves v clamped to [0.1, 0.95]; every call is accepted
\* and both parameters are within their bounds in every state.
C17_SettersClamp ==
  /\ [](\A v \in SettingSensitivities : ENABLED SetSensitivity(v))
  /\ [](\A v \in SettingSmoothings : ENABLED SetSmoothing(v))
  /\ [](sensitivity \in 1..30 /\ smoothingFactor \in 10..95)
  /\ [][ /\ \A v \in SettingSensitivities : SetSensitivity(v) =>
              sensitivity' = (IF v < 1 THEN 1 ELSE IF v > 30 THEN 30 ELSE v)
         /\ \A v \in SettingSmoothings : SetSmoothing(v) =>
              smoothingFactor' = (IF v < 10 THEN 10 ELSE IF v > 95 THEN 95 ELSE v)
       ]_vars

\* C17 witness: both parameters sit on a bound that only an out-of-range
\* argument leads to.
C17_Witness ==
  /\ sensitivity = MinSensitivity
  /\ smoothingFactor = MaxSmoothing

\* C23 (SpecPlayback): a step changes the raw or the smoothed bands only as a
\* whole: an analysed tick sets the four raw bands from its one frequency
\* array and the four smoothed bands from these, a tick while not playing
\* fades the four smoothed bands and keeps the raw ones, and no other
\* operation touches them; and what getFrequencyData() returns inside a beat
\* callback is the state the tick ends with, so a reader between ticks or in
\* a beat callback sees the bands of one tick.
C23_BandsOfOneTick ==
  [][ /\ (frequencyData' # frequencyData \/ smoothedData' # smoothedData) =>
           /\ ticks' = ticks + 1
           /\ \/ /\ lastTick'.kind = "analysed"
                 /\ frequencyData' = RawBands(frequencyArray', SampleRate, sensitivity)
                 /\ \A b \in Bands :
                      smoothedData'[b] = smoothValue(smoothedData[b], frequencyData'[b],
                                                     smoothingFactor)
              \/ /\ lastTick'.kind = "decay"
                 /\ frequencyData' = frequencyData
                 /\ \A b \in Bands :
                      smoothedData'[b] = (smoothedData[b] * 95) \div 100
      /\ Len(beatLog') > Len(beatLog) =>
           beatLog'[Len(beatLog')].read = getFrequencyData(frequencyData', smoothedData')
    ]_vars

\* C23 witness: a beat callback read the bands on a tick that moved the
\* smoothed bass, and a later tick while paused has faded it.
C23_Witness ==
  /\ lastTick.kind = "decay"
  /\ \E i \in DOMAIN beatLog :
       /\ beatLog[i].invoked # <<>>
       /\ beatLog[i].read.smoothed.bass > 0
       /\ beatLog[i].read.smoothed.bass < beatLog[i].read.raw.bass
       /\ smoothedData.bass < beatLog[i].read.smoothed.bass

\* C33 (SpecFade): while playback stays off and update() keeps being called
\* the smoothed overall energy falls to the volume threshold 0.01 or below,
\* so that isActive of getAudioFeatures() becomes false, and it stays false
\* for as long as playback is off.
C33_FadeToInactive ==
  /\ [](~isPlaying => <>(isPlaying \/ ~IsActive(smoothedData)))
  /\ [][(~isPlaying /\ ~isPlaying' /\ ~IsActive(smoothedData))
          => ~IsActive(smoothedData')]_vars

\* C33 witness: audio was analysed at full scale, and ticks while not playing
\* have faded the smoothed overall energy to the threshold or below, with
\* some energy left.
C33_Witness ==
  /\ ~isPlaying
  /\ lastTick.kind = "decay"
  /\ frequencyData.overall = EnergyUnit
  /\ smoothedData.overall > 0
  /\ ~IsActive(smoothedData)

\* C21 (SpecSettings), as claimed: after any interleaving of update() ticks,
\* playing or paused, with setSensitivity and setSmoothing calls, each
\* smoothed band returned by getFrequencyData lies in [0,1].
C21_SmoothedBandsInUnitRange ==
  \A b \in Bands : smoothedData[b] >= 0 /\ smoothedData[b] <= EnergyUnit

----------------------------------------------------------------------------
\* Claims about the callback slots
----------------------------------------------------------------------------

\* The callback registered for slot when the frame numbered frame ran: that
\* of the last registration made before it
RegisteredAt(slot, frame) ==
  LET before == SelectSeq(registrations[slot], LAMBDA r : r.at < frame)
  IN  IF before = <<>> THEN Null ELSE before[Len(before)].cb

FrameRecords == HandRecords \cup {poseLog}

\* C18 (SpecSlots): each of the gesture events onPinch, onSwipe, onReset,
\* onFollow and onBodyLean has one callback slot: the slot holds the callback
\* of its last registration, and every invocation of the event made by a
\* frame goes to the callback registered last before that frame, so after
\* registering a and then b only b is invoked.
C18_SlotHoldsLastRegistration ==
  /\ \A slot \in GestureSlots :
       registrations[slot] # <<>> =>
         callbacks[slot] = registrations[slot][Len(registrations[slot])].cb
  /\ \A rec \in FrameRecords : \A i \in DOMAIN rec.calls :
       rec.calls[i].slot \in GestureSlots =>
         rec.calls[i].cb = RegisteredAt(rec.calls[i].slot, rec.frame)

\* a and then b were registered for onPinch, onSwipe and onBodyLean before the
\* last frames, which invoked b for each of them
C18_Witness ==
  /\ \A slot \in {"onPinch", "onSwipe", "onBodyLean"} :
       /\ Len(registrations[slot]) = 2
       /\ registrations[slot][1].cb = "a"
       /\ \E rec \in FrameRecords :
            /\ registrations[slot][2].at < rec.frame
            /\ \E i \in CallsOf(rec, slot) : rec.calls[i].cb = "b"

\* The fields of the gesture state and of the smoothed values a classifier
\* step may write
OwnState(step) ==
  IF step = "pinch" THEN {"isPinching"}
  ELSE IF step = "swipe" THEN {"isSwipeActive", "swipeDirection", "lastHandPosition"}
  ELSE IF step = "follow"
  THEN {"isFollowing", "followPosition", "smoothedFollowPosition", "handVelocity",
        "smoothedVelocity"}
  ELSE {}
OwnSmoothed(step) ==
  IF step = "pinch" THEN {"pinchStrength"}
  ELSE IF step = "bodyLean" THEN {"bodyLean"}
  ELSE {}

SameExcept(before, after, fields) ==
  \A f \in (DOMAIN before) \ fields : after[f] = before[f]

\* The snapshots before and after the step of a classifier in the record of
\* a hand
StepsOf(rec, step) == { i \in 2..Len(rec.snaps) : rec.snaps[i].step = step }

\* C32 (SpecSlots): the pinch step of a hand changes no gesture state but
\* isPinching and smoothedValues.pinchStrength, the swipe step none but
\* isSwipeActive, swipeDirection and lastHandPosition, the follow step none
\* but isFollowing, followPosition, smoothedFollowPosition, handVelocity and
\* smoothedVelocity, and the body-lean step of a pose frame none but
\* smoothedValues.bodyLean.
C32_ClassifiersWriteOwnState ==
  /\ [](\A rec \in HandRecords : \A step \in {"pinch", "swipe", "follow"} :
         \A i \in StepsOf(rec, step) :
           /\ SameExcept(rec.snaps[i - 1].gs, rec.snaps[i].gs, OwnState(step))
           /\ SameExcept(rec.snaps[i - 1].sv, rec.snaps[i].sv, OwnSmoothed(step)))
  /\ [][ poseLog'.frame = frames + 1 =>
           /\ SameExcept(gestureState, gestureState', OwnState("bodyLean"))
           /\ SameExcept(smoothedValues, smoothedValues', OwnSmoothed("bodyLean"))
       ]_vars

\* C32 witness: in the extended manager the steps of one hand have set
\* isPinching, locked the swipe and moved the follow position, and a pose
\* frame has moved the smoothed body lean.
C32_Witness ==
  /\ variant = "extended"
  /\ smoothedValues.bodyLean # 0
  /\ \E rec \in HandRecords :
       /\ \E i \in StepsOf(rec, "pinch") :
            rec.snaps[i].gs.isPinching /\ ~rec.snaps[i - 1].gs.isPinching
       /\ \E i \in StepsOf(rec, "swipe") :
            rec.snaps[i].gs.isSwipeActive /\ ~rec.snaps[i - 1].gs.isSwipeActive
       /\ \E i \in StepsOf(rec, "follow") :
            rec.snaps[i].gs.followPosition # rec.snaps[i - 1].gs.followPosition

----------------------------------------------------------------------------
\* Claims about the beat callbacks

\* C19 (SpecBeatRegistry), as claimed: the beat event has one callback slot;
\* a fired beat invokes the callback registered last, and no other.
C19_BeatSingleSlot ==
  \A i \in DOMAIN beatLog :
    LET e == beatLog[i]
    IN  e.registered # <<>> =>
          /\ Len(e.invoked) <= 1
          /\ \A j \in DOMAIN e.invoked : e.invoked[j] = e.registered[Len(e.registered)]

\* C19 (SpecBeatRegistry), amended: the beat event has a list of callbacks
\* rather than one slot: a registration appends its callback behind those
\* already registered and removes none, and a fired beat invokes the earliest
\* registered function of the list first, so that after onBeat(a) followed by
\* onBeat(b) a is still invoked.
C19_BeatListKeepsEarlier ==
  /\ [](\A i \in DOMAIN beatLog :
         LET functions == SelectSeq(beatLog[i].registered, IsFunction)
         IN  functions # <<>> =>
               /\ beatLog[i].invoked # <<>>
               /\ beatLog[i].invoked[1] = functions[1])
  /\ [][(beatCallbacks' # beatCallbacks /\ Len(beatCallbacks') >= Len(beatCallbacks))
          => /\ Len(beatCallbacks') = Len(beatCallbacks) + 1
             /\ SubSeq(beatCallbacks', 1, Len(beatCallbacks)) = beatCallbacks]_vars

\* a beat fired with a and then b registered, and invoked a and then b
C19_Witness ==
  \E i \in DOMAIN beatLog :
    /\ beatLog[i].registered = <<"a", "b">>
    /\ beatLog[i].invoked = <<"a", "b">>

\* C34 (SpecVisualizer), as claimed: once destroy() of the visualizer has
\* cleaned up its audio callbacks, the beat callback it registered in
\* setupAudioCallbacks is not in the list of beat callbacks and no beat of a
\* later tick invokes it.
C34_DestroyedVisualizerUnregistered ==
  visualizer.state = "destroyed" =>
    /\ \A i \in DOMAIN beatCallbacks : beatCallbacks[i] # VisualizerArrow
    /\ \A i \in DOMAIN beatLog :
         beatLog[i].tick > visualizer.at =>
           \A j \in DOMAIN beatLog[i].invoked : beatLog[i].invoked[j] # VisualizerArrow

\* C20 (SpecBeatRegistry), as claimed: a firing beat sets lastBeatTime to the
\* time of its tick and invokes every callback function then registered (and
\* not removed) once per registration, in registration order, each with the
\* raw bass energy of the tick.
C20_BeatInvokesAllRegistered ==
  /\ beatLog # <<>> => lastBeatTime = beatLog[Len(beatLog)].time
  /\ (lastTick.kind = "analysed" /\ lastTick.beat) =>
       beatLog[Len(beatLog)].intensity = frequencyData.bass
  /\ \A i \in DOMAIN beatLog :
       /\ Len(beatLog[i].invoked) = Len(SelectSeq(beatLog[i].registered, IsFunction))
       /\ \A j \in DOMAIN beatLog[i].invoked :
            beatLog[i].invoked[j] = SelectSeq(beatLog[i].registered, IsFunction)[j]

\* C35 (SpecToggle): a hand or pose result that is delivered while
\* isEnabled is false invokes no callback, changes no gesture state and
\* dispatches no swipe, also when gestures were enabled earlier.
C35_DisabledResultsInvokeNothing ==
  [][(frames' = frames + 1 /\ ~isEnabled) =>
       /\ \A i \in 1..Len(handLog') : handLog'[i].frame # frames'
       /\ poseLog'.frame # frames'
       /\ swipeLog' = swipeLog
       /\ gestureState' = gestureState
       /\ smoothedValues' = smoothedValues]_vars

\* Gestures are disabled again after a pose result made a body-lean call; the
\* result of the next frame arrived afterwards and left no call.
C35_Witness ==
  /\ ~isEnabled
  /\ callbacks["onPinch"] = "a"
  /\ callbacks["onBodyLean"] = "a"
  /\ poseLog.frame = 1
  /\ poseLog.calls # <<>>
  /\ frames = 2
  /\ handLog = <<>>

\* C36 (SpecSwipe): as long as no registered consumer throws, isSwipeActive
\* is true exactly when one unlock timer is pending; and in every state at
\* most one unlock timer is pending.
C36_LockMatchesOneTimer ==
  /\ (\A slot \in CallbackSlots : callbacks[slot] # "thrower") =>
        (gestureState.isSwipeActive <=> Len(swipeTimers) = 1)
  /\ Len(swipeTimers) <= 1

\* A second swipe was dispatched to a returning consumer after the lock of
\* the first one was released; its lock is held and its timer is pending.
C36_Witness ==
  /\ callbacks["onSwipe"] = "a"
  /\ Len(swipeLog) = 2
  /\ gestureState.isSwipeActive
  /\ Len(swipeTimers) = 1

\* C37 (SpecSlots): in the extended manager a hand whose processHandGestures
\* call starts with isFollowing true dispatches no swipe: its swipe step
\* leaves the lock and the direction alone and it calls neither onSwipe nor
\* onColorPalette, also when detectSwipe reports a swipe for it.
C37_NoSwipeWhileFollowing ==
  variant = "extended" =>
    \A k \in 1..Len(handLog) :
      LET rec == handLog[k]
      IN  rec.followBefore =>
            /\ CallsOf(rec, "onSwipe") = {}
            /\ CallsOf(rec, "onColorPalette") = {}
            /\ \A i \in StepsOf(rec, "swipe") :
                 /\ rec.snaps[i].gs.isSwipeActive = rec.snaps[i - 1].gs.isSwipeActive
                 /\ rec.snaps[i].gs.swipeDirection = rec.snaps[i - 1].gs.swipeDirection

\* A hand that was pointing in the frame before moved far enough to the side
\* for detectSwipe to report a swipe, with an onSwipe consumer registered and
\* the lock free.
C37_Witness ==
  /\ variant = "extended"
  /\ callbacks["onSwipe"] # Null
  /\ Len(handLog) = 1
  /\ handLog[1].followBefore
  /\ handLog[1].swipeData.isSwipe
  /\ ~handLog[1].threw
  /\ ~gestureState.isSwipeActive

\* C38 (SpecToggle): with both consumers registered before the first toggle,
\* the onGestureStart and onGestureEnd calls alternate, beginning with
\* onGestureStart, and at most one camera.start() has resolved since the
\* last camera.stop().
C38_StartAndEndAlternate ==
  /\ Len(toggleLog.calls) = 1 => toggleLog.calls[1] = "onGestureStart"
  /\ Len(toggleLog.calls) = 2 => toggleLog.calls[1] # toggleLog.calls[2]
  /\ toggleLog.started <= 1

\* C39 (SpecSteadyBass): a tick whose bass energy equals every sample of
\* the history, itself included, fires no beat; so while the bass has had
\* one value on every tick since the start, silence included, no beat has
\* fired at all.
C39_SteadyBassNeverFires ==
  (ticks > 0 /\ \A i \in DOMAIN beatHistory : beatHistory[i] = frequencyData.bass) =>
     /\ ~lastTick.beat
     /\ ticks <= BeatHistorySize => beatLog = <<>>

\* The bass has been 0.9 on more ticks than the history holds, the interval
\* since lastBeatTime has long passed, and no beat has fired.
C39_Witness ==
  /\ ticks > BeatHistorySize
  /\ Len(beatHistory) = BeatHistorySize
  /\ \A i \in DOMAIN beatHistory : beatHistory[i] = frequencyData.bass
  /\ frequencyData.bass = (9 * EnergyUnit) \div 10
  /\ beatLog = <<>>
  /\ BeatIntervalElapsed(now, lastBeatTime)

====
